---------------------------- MODULE Spec2Model ----------------------------
(***************************************************************************)
(* Data-integrity repair scripts of the snowva repository: the integrity   *)
(* verifier, the customer / product mapping builders, the fixers that      *)
(* apply a mapping to the JSON collections, the Firebase re-migration, and *)
(* the scripts that convert the dates of invoices and payments.            *)
(* Identifiers are TLA+ strings; the Python string methods the scripts use *)
(* (startswith, in, replace, split, lower, strip) are computed character   *)
(* by character.                                                           *)
(***************************************************************************)
EXTENDS Integers, Sequences, FiniteSets, TLC

(***************************************************************************)
(* Python values                                                           *)
(***************************************************************************)

\* Python's None (a JSON null, or the result of dict.get on a missing key).
None == "<None>"

\* bool(x) for a value that is None or a str.
Truthy(x) == x # None /\ x # ""

(***************************************************************************)
(* Python str methods                                                      *)
(***************************************************************************)

\* s[i:j] with 1-based inclusive bounds
Slice(s, i, j) == SubSeq(s, i, j)

\* s[i-1:] == p at the 1-based position i
OccursAt(s, p, i) ==
    /\ i >= 1
    /\ i + Len(p) - 1 <= Len(s)
    /\ Slice(s, i, i + Len(p) - 1) = p

\* s.startswith(p)
StartsWith(s, p) == OccursAt(s, p, 1)

\* p in s
Contains(s, p) == \E i \in 1..(Len(s) + 1) : OccursAt(s, p, i)

\* s.find(p, from) as a 1-based position, 0 when absent (p non-empty)
RECURSIVE FindFrom(_, _, _)
FindFrom(s, p, i) ==
    IF i + Len(p) - 1 > Len(s) THEN 0
    ELSE IF OccursAt(s, p, i) THEN i
    ELSE FindFrom(s, p, i + 1)

\* s.replace(old, new) for a non-empty old: leftmost non-overlapping matches
RECURSIVE ReplaceFrom(_, _, _, _)
ReplaceFrom(s, old, new, i) ==
    LET k == FindFrom(s, old, i)
    IN  IF k = 0 THEN Slice(s, i, Len(s))
        ELSE Slice(s, i, k - 1) \o new \o ReplaceFrom(s, old, new, k + Len(old))

Replace(s, old, new) == ReplaceFrom(s, old, new, 1)

\* s.split(sep) for a non-empty sep
RECURSIVE SplitFrom(_, _, _)
SplitFrom(s, sep, i) ==
    LET k == FindFrom(s, sep, i)
    IN  IF k = 0 THEN << Slice(s, i, Len(s)) >>
        ELSE << Slice(s, i, k - 1) >> \o SplitFrom(s, sep, k + Len(sep))

Split(s, sep) == SplitFrom(s, sep, 1)

\* seq[-1]
Last(seq) == seq[Len(seq)]

UpperCase == << "A", "B", "C", "D", "E", "F", "G", "H", "I", "J", "K", "L", "M",
                "N", "O", "P", "Q", "R", "S", "T", "U", "V", "W", "X", "Y", "Z" >>
LowerCase == << "a", "b", "c", "d", "e", "f", "g", "h", "i", "j", "k", "l", "m",
                "n", "o", "p", "q", "r", "s", "t", "u", "v", "w", "x", "y", "z" >>

UpperCaseLetters == { UpperCase[n] : n \in 1..Len(UpperCase) }

LowerChar(c) ==
    IF c \in UpperCaseLetters
    THEN LowerCase[CHOOSE n \in 1..Len(UpperCase) : UpperCase[n] = c]
    ELSE c

\* s.lower() (ASCII letters)
RECURSIVE LowerFrom(_, _)
LowerFrom(s, i) ==
    IF i > Len(s) THEN ""
    ELSE LowerChar(Slice(s, i, i)) \o LowerFrom(s, i + 1)

Lower(s) == LowerFrom(s, 1)

\* the characters str.strip() removes from a string of ASCII characters:
\* space, \t, \n, \r, form feed, vertical tab (0x0b) and the separators
\* 0x1c..0x1f (the last five stand in the strings as the characters themselves)
Whitespace == { " ", "\t", "\n", "\r", "\f", "", "", "", "", "" }

IsSpace(c) == c \in Whitespace

\* s.strip()
RECURSIVE LStrip(_)
LStrip(s) ==
    IF Len(s) > 0 /\ IsSpace(Slice(s, 1, 1)) THEN LStrip(Slice(s, 2, Len(s))) ELSE s

RECURSIVE RStrip(_)
RStrip(s) ==
    IF Len(s) > 0 /\ IsSpace(Slice(s, Len(s), Len(s)))
    THEN RStrip(Slice(s, 1, Len(s) - 1)) ELSE s

Strip(s) == LStrip(RStrip(s))

(***************************************************************************)
(* The JSON collections                                                    *)
(*                                                                         *)
(* A store is the content of data/normalized:                              *)
(*   customers : sequence of customer objects, in file order, each with    *)
(*               the key it is filed under, its "id", "parentCompanyId"    *)
(*               and "customProductPricing"                                *)
(*   products  : sequence of [key, id]                                     *)
(*   invoices  : sequence of [id, customerId, lineItems]                   *)
(*   payments  : sequence of [id, customerId, allocatedInvoices]           *)
(*   quotes    : [exists, recs], recs as invoices                          *)
(* customProductPricing is [kind, items, keys]: kind "absent", "list"      *)
(* (items: pricing records [id, productId, prices]) or "dict" (keys: the   *)
(* product ids the pricing objects are filed under).                       *)
(***************************************************************************)

NoPricing == [kind |-> "absent", items |-> << >>, keys |-> << >>]
ListPricing(items) == [kind |-> "list", items |-> items, keys |-> << >>]
DictPricing(keys) == [kind |-> "dict", items |-> << >>, keys |-> keys]

Range(seq) == { seq[i] : i \in 1..Len(seq) }

\* {record["id"] for record in records}
IdSet(recs) == { recs[i].id : i \in 1..Len(recs) }

\* set(customers.keys())
KeySet(recs) == { recs[i].key : i \in 1..Len(recs) }

(***************************************************************************)
(* finalIntegrityCheck.py: verify_integrity                                *)
(***************************************************************************)

\* 1. customers -> products: only a non-empty dict is inspected, key by key
CustomerProductErrors(s) ==
    LET product_ids == IdSet(s.products)
    IN  UNION { { <<c, k>> : k \in { k \in 1..Len(s.customers[c].customProductPricing.keys) :
                    /\ s.customers[c].customProductPricing.kind = "dict"
                    /\ s.customers[c].customProductPricing.keys[k] \notin product_ids } }
                : c \in 1..Len(s.customers) }

\* 2. invoices -> customers
InvoiceCustomerErrors(s) ==
    LET customer_ids == IdSet(s.customers)
    IN  { i \in 1..Len(s.invoices) :
            /\ Truthy(s.invoices[i].customerId)
            /\ s.invoices[i].customerId \notin customer_ids }

\* 2. invoices -> products, per line item
InvoiceProductErrors(s) ==
    LET product_ids == IdSet(s.products)
    IN  UNION { { <<i, j>> : j \in { j \in 1..Len(s.invoices[i].lineItems) :
                    /\ Truthy(s.invoices[i].lineItems[j].productId)
                    /\ s.invoices[i].lineItems[j].productId \notin product_ids } }
                : i \in 1..Len(s.invoices) }

\* 3. payments -> customers
PaymentCustomerErrors(s) ==
    LET customer_ids == IdSet(s.customers)
    IN  { p \in 1..Len(s.payments) :
            /\ Truthy(s.payments[p].customerId)
            /\ s.payments[p].customerId \notin customer_ids }

\* 3. payments -> invoices, per allocation
PaymentInvoiceErrors(s) ==
    LET invoice_ids == IdSet(s.invoices)
    IN  UNION { { <<p, j>> : j \in { j \in 1..Len(s.payments[p].allocatedInvoices) :
                    /\ Truthy(s.payments[p].allocatedInvoices[j])
                    /\ s.payments[p].allocatedInvoices[j] \notin invoice_ids } }
                : p \in 1..Len(s.payments) }

\* 4. customers -> parent customer
ParentErrors(s) ==
    LET customer_ids == IdSet(s.customers)
    IN  { c \in 1..Len(s.customers) :
            /\ Truthy(s.customers[c].parentCompanyId)
            /\ s.customers[c].parentCompanyId \notin customer_ids }

\* The six error lists' lengths, total_errors and the returned success flag.
verify_integrity(s) ==
    LET cp  == Cardinality(CustomerProductErrors(s))
        ic  == Cardinality(InvoiceCustomerErrors(s))
        ip  == Cardinality(InvoiceProductErrors(s))
        pc  == Cardinality(PaymentCustomerErrors(s))
        pi  == Cardinality(PaymentInvoiceErrors(s))
        par == Cardinality(ParentErrors(s))
        total_errors == cp + ic + ip + pc + pi + par
    IN  [customer_product |-> cp, invoice_customer |-> ic, invoice_product |-> ip,
         payment_customer |-> pc, payment_invoice |-> pi, parent |-> par,
         total |-> total_errors, success |-> (total_errors = 0)]

(***************************************************************************)
(* Mapping builders.  A mapping is a function from the old identifiers it  *)
(* has an entry for to the new identifier, or to None.                     *)
(***************************************************************************)

EmptyMapping == [r \in {} |-> None]

\* mapping.get(k): None for a missing key
Get(mapping, k) == IF k \in DOMAIN mapping THEN mapping[k] ELSE None

\* The first element of an iteration order that is in matching, else None.
FirstIn(order, matching) ==
    LET hits == { i \in 1..Len(order) : order[i] \in matching }
    IN  IF hits = {} THEN None
        ELSE order[CHOOSE i \in hits : \A j \in hits : i <= j]

\* Every order in which a set can be iterated.
Orders(S) ==
    { o \in [1..Cardinality(S) -> S] : \A i, j \in 1..Cardinality(S) : o[i] = o[j] => i = j }

(***************************************************************************)
(* finalCustomerFix.py: create_comprehensive_customer_mapping              *)
(***************************************************************************)

\* the invalid references collected from invoices and payments
ComprehensiveInvalidRefs(s) ==
    LET actual_customer_ids == IdSet(s.customers)
    IN  { s.invoices[i].customerId : i \in { i \in 1..Len(s.invoices) :
            Truthy(s.invoices[i].customerId)
            /\ s.invoices[i].customerId \notin actual_customer_ids } }
        \cup
        { s.payments[i].customerId : i \in { i \in 1..Len(s.payments) :
            Truthy(s.payments[i].customerId)
            /\ s.payments[i].customerId \notin actual_customer_ids } }

\* Strategy 3: the first id, in the set's iteration order, that contains the
\* cleaned reference or is contained in it
PartialHit(clean_search, actual_id) ==
    \/ Contains(Lower(actual_id), clean_search)
    \/ Contains(clean_search, Lower(actual_id))

PartialMatchOf(clean_search, order) ==
    FirstIn(order, { actual_id \in Range(order) : PartialHit(clean_search, actual_id) })

PartialMatch(invalid_ref, order) ==
    PartialMatchOf(Lower(Replace(Replace(invalid_ref, "cust_", ""), "__", "_")), order)

\* Strategy 4: the first id, in iteration order, equal to one of the variations
VariationMatch(invalid_ref, order) ==
    LET variations ==
            { Replace(invalid_ref, "cust_", ""),
              Strip(Replace(Replace(invalid_ref, "cust_", ""), "_", " ")),
              IF Contains(invalid_ref, "_") THEN Last(Split(invalid_ref, "_"))
                                             ELSE invalid_ref }
        Hit(actual_id) == actual_id \in variations
    IN  FirstIn(order, { actual_id \in Range(order) : Hit(actual_id) })

\* Strategy 4 is tried only when strategy 3 found nothing
Either(partial, invalid_ref, order) ==
    IF partial # None THEN partial ELSE VariationMatch(invalid_ref, order)

\* The target of one invalid reference, None when it stays unmapped; order is
\* the iteration order of the set actual_customer_ids.
ComprehensiveTarget(invalid_ref, order) ==
    LET actual_customer_ids == Range(order)
        clean_ref == Slice(invalid_ref, 6, Len(invalid_ref))
    IN  IF StartsWith(invalid_ref, "cust_") /\ clean_ref \in actual_customer_ids
        THEN clean_ref
        ELSE IF /\ StartsWith(invalid_ref, "cust_")
                /\ Contains(invalid_ref, "__")
                /\ Last(Split(invalid_ref, "__")) \in actual_customer_ids
        THEN Last(Split(invalid_ref, "__"))
        ELSE Either(PartialMatch(invalid_ref, order), invalid_ref, order)

create_comprehensive_customer_mapping(s, order) ==
    LET invalid_refs == ComprehensiveInvalidRefs(s)
        mapped == { r \in invalid_refs : ComprehensiveTarget(r, order) # None }
    IN  [r \in mapped |-> ComprehensiveTarget(r, order)]

(***************************************************************************)
(* fixCustomerReferences.py: create_customer_mapping                       *)
(***************************************************************************)

\* every customerId the invoices hold, valid or not
InvoiceCustomerRefs(s) == { s.invoices[i].customerId : i \in 1..Len(s.invoices) }

\* the first variation, in list order, that is a customer key
FirstVariation(variations, actual_customer_ids) ==
    LET Hit(v) == v \in actual_customer_ids
    IN  FirstIn(variations, { v \in Range(variations) : Hit(v) })

\* create_customer_mapping with a valid reference kept as its own target
CustomerMappingTargetKeepingValid(invoice_ref, actual_customer_ids) ==
    LET clean_ref == Slice(invoice_ref, 6, Len(invoice_ref))
        parts == Split(clean_ref, "__")
        variations == << Replace(clean_ref, "__", "_"),
                         Replace(clean_ref, "_", ""),
                         Replace(clean_ref, " ", "_") >>
    IN  IF ~StartsWith(invoice_ref, "cust_")
        THEN (IF invoice_ref \in actual_customer_ids THEN invoice_ref ELSE None)
        ELSE IF clean_ref \in actual_customer_ids THEN clean_ref
        ELSE IF Contains(clean_ref, "__") /\ Last(parts) \in actual_customer_ids
        THEN Last(parts)
        ELSE IF Contains(clean_ref, "__") /\ parts[1] \in actual_customer_ids
        THEN parts[1]
        ELSE FirstVariation(variations, actual_customer_ids)

CustomerMappingTarget(invoice_ref, actual_customer_ids) ==
    LET clean_ref == Slice(invoice_ref, 6, Len(invoice_ref))
        parts == Split(clean_ref, "__")
        variations == << Replace(clean_ref, "__", "_"),
                         Replace(clean_ref, "_", ""),
                         Replace(clean_ref, " ", "_") >>
    IN  IF ~StartsWith(invoice_ref, "cust_") THEN None
        ELSE IF clean_ref \in actual_customer_ids THEN clean_ref
        ELSE IF Contains(clean_ref, "__") /\ Last(parts) \in actual_customer_ids
        THEN Last(parts)
        ELSE IF Contains(clean_ref, "__") /\ parts[1] \in actual_customer_ids
        THEN parts[1]
        ELSE FirstVariation(variations, actual_customer_ids)

create_customer_mapping(s) ==
    LET actual_customer_ids == KeySet(s.customers)
        refs == InvoiceCustomerRefs(s)
        mapped == { r \in refs : CustomerMappingTarget(r, actual_customer_ids) # None }
    IN  [r \in mapped |-> CustomerMappingTarget(r, actual_customer_ids)]

(***************************************************************************)
(* fixDataIntegrity.py: DataIntegrityFixer                                 *)
(***************************************************************************)

\* list({record["id"]: record for record in recs}.values()): one entry per id,
\* at the position of its first record, holding its last record
RECURSIVE DictByIdFrom(_, _)
DictByIdFrom(recs, i) ==
    IF i > Len(recs) THEN << >>
    ELSE IF \E j \in 1..(i - 1) : recs[j].id = recs[i].id
    THEN DictByIdFrom(recs, i + 1)
    ELSE LET same == { j \in i..Len(recs) : recs[j].id = recs[i].id }
             last == CHOOSE j \in same : \A k \in same : k <= j
         IN  << recs[last] >> \o DictByIdFrom(recs, i + 1)

DictById(recs) == DictByIdFrom(recs, 1)

\* load_all_data: invoices and payments (and a quotes list) are keyed by id
load_all_data(s) ==
    [s EXCEPT !.invoices = DictById(s.invoices),
              !.payments = DictById(s.payments),
              !.quotes = [exists |-> s.quotes.exists,
                          recs |-> IF s.quotes.exists THEN DictById(s.quotes.recs)
                                   ELSE << >>]]

\* create_product_id_mapping: the literal table
ProductMappingTable ==
    << <<"snowva_ultimate_ice_maker", "prod_snowva">>,
       <<"outray", "prod_outray">>,
       <<"makabrai", "prod_makabrai">>,
       <<"borki", "prod_borki">>,
       <<"braai_bak_2_5l", "prod_braai_bak_2_5l">>,
       <<"braai_bak_3_8l", "prod_braai_bak_3_8l">>,
       <<"braai_bak_5_2l", "prod_braai_bak_5_2l">>,
       <<"braai_grid_large", "prod_braai_grid_large">>,
       <<"braai_grid_medium", "prod_braai_grid_medium">>,
       <<"braai_grid_small", "prod_braai_grid_small">>,
       <<"snowva_ultimate_ice_tray_blue_assorted", "prod_snowva">>,
       <<"outray_travel_tray", "prod_outray">>,
       <<"braaitas", "prod_braai_tas">>,
       <<"borki_handmade", "prod_borki">>,
       <<"makabrai_grid_25x25", "prod_makabrai">>,
       <<"makabrai_grid_40x30", "prod_makabrai">>,
       <<"makabrai_grid_40x50", "prod_makabrai">>,
       <<"makabrai_grid_50x40", "prod_makabrai">>,
       <<"braai_bak_5_5l", "prod_braai_bak_5_2l">>,
       <<"v", None>> >>

\* a literal dict, given as its (key, value) entries
DictOf(table) ==
    [k \in { table[i][1] : i \in 1..Len(table) } |->
        table[CHOOSE i \in 1..Len(table) : table[i][1] = k][2]]

create_product_id_mapping == DictOf(ProductMappingTable)

\* old in mapping and mapping[old]
HasTarget(mapping, old) == old \in DOMAIN mapping /\ Truthy(mapping[old])

\* fix_product_references with the nested price ids left as they were
FixPricingKeepingPrices(pricing, product_mapping) ==
    LET old_product_id == pricing.productId
        new_product_id == product_mapping[old_product_id]
    IN  IF HasTarget(product_mapping, old_product_id)
        THEN [productId |-> new_product_id,
              id |-> Replace(pricing.id, old_product_id, new_product_id),
              prices |-> pricing.prices]
        ELSE pricing

\* one pricing record under fix_product_references
FixPricing(pricing, product_mapping) ==
    LET old_product_id == pricing.productId
        new_product_id == product_mapping[old_product_id]
    IN  IF HasTarget(product_mapping, old_product_id)
        THEN [productId |-> new_product_id,
              id |-> Replace(pricing.id, old_product_id, new_product_id),
              prices |-> [k \in 1..Len(pricing.prices) |->
                            Replace(pricing.prices[k], old_product_id, new_product_id)]]
        ELSE pricing

\* one line item under fix_product_references
FixLineItem(item, product_mapping) ==
    IF HasTarget(product_mapping, item.productId)
    THEN [item EXCEPT !.productId = product_mapping[item.productId]]
    ELSE item

\* fix_product_references rewriting the records' customerId as well
FixLineItemsAndCustomerIds(recs, product_mapping) ==
    [i \in 1..Len(recs) |->
        [recs[i] EXCEPT
            !.customerId = IF HasTarget(product_mapping, @) THEN product_mapping[@] ELSE @,
            !.lineItems =
                [j \in 1..Len(recs[i].lineItems) |->
                    FixLineItem(recs[i].lineItems[j], product_mapping)]]]

\* the line items of invoices or quotes under fix_product_references
FixLineItems(recs, product_mapping) ==
    [i \in 1..Len(recs) |->
        [recs[i] EXCEPT !.lineItems =
            [j \in 1..Len(recs[i].lineItems) |->
                FixLineItem(recs[i].lineItems[j], product_mapping)]]]

\* the loaded data after fix_product_references
FixProductData(d, product_mapping) ==
    [d EXCEPT
        !.customers = [c \in 1..Len(d.customers) |->
            [d.customers[c] EXCEPT !.customProductPricing.items =
                [k \in 1..Len(d.customers[c].customProductPricing.items) |->
                    FixPricing(d.customers[c].customProductPricing.items[k],
                               product_mapping)]]],
        !.invoices = FixLineItems(d.invoices, product_mapping),
        !.quotes.recs = FixLineItems(d.quotes.recs, product_mapping)]

\* the number of line items of recs that fix_product_references rewrites
LineItemFixes(recs, product_mapping) ==
    Cardinality(UNION { { <<i, j>> : j \in { j \in 1..Len(recs[i].lineItems) :
                            HasTarget(product_mapping, recs[i].lineItems[j].productId) } }
                        : i \in 1..Len(recs) })

PricingFixes(customers, product_mapping) ==
    Cardinality(UNION { { <<c, k>> : k \in { k \in 1..Len(customers[c].customProductPricing.items) :
                            HasTarget(product_mapping,
                                      customers[c].customProductPricing.items[k].productId) } }
                        : c \in 1..Len(customers) })

\* fixes_applied of fix_product_references
ProductFixesApplied(d, product_mapping) ==
    PricingFixes(d.customers, product_mapping)
    + LineItemFixes(d.invoices, product_mapping)
    + LineItemFixes(d.quotes.recs, product_mapping)

\* iterating a dict-shaped customProductPricing yields its keys, and
\* pricing["productId"] on a key (a str) raises TypeError
PricingRaises(customers) ==
    \E c \in 1..Len(customers) :
        /\ customers[c].customProductPricing.kind = "dict"
        /\ Len(customers[c].customProductPricing.keys) > 0

\* save_fixed_data: the files after the save; customers as loaded, invoices
\* and payments as arrays, quotes as an array and only when any was loaded
save_fixed_data(s, d) ==
    [s EXCEPT !.customers = d.customers,
              !.invoices = d.invoices,
              !.payments = d.payments,
              !.quotes = IF Len(d.quotes.recs) > 0
                         THEN [exists |-> TRUE, recs |-> d.quotes.recs]
                         ELSE s.quotes,
              !.shape = [s.shape EXCEPT
                            !.invoices = "list",
                            !.payments = "list",
                            !.quotes = IF Len(d.quotes.recs) > 0 THEN "list" ELSE @]]

\* the files save_fixed_data opens for writing, in order
SavedFiles(d) ==
    << << "write", "customers" >>, << "write", "invoices" >>, << "write", "payments" >> >>
    \o (IF Len(d.quotes.recs) > 0 THEN << << "write", "quotes" >> >> ELSE << >>)

\* create_customer_id_mapping, on the loaded data d
CustomerIdInvalid(d) ==
    { d.invoices[i].customerId : i \in { i \in 1..Len(d.invoices) :
        Truthy(d.invoices[i].customerId)
        /\ d.invoices[i].customerId \notin KeySet(d.customers) } }

CustomerIdTarget(invalid_id, available_customers) ==
    LET clean_id == Slice(invalid_id, 6, Len(invalid_id))
        variations == << clean_id, Replace(clean_id, "__", "_"), Replace(clean_id, "_", "") >>
        location == IF Contains(clean_id, "__") THEN Last(Split(clean_id, "__")) ELSE ""
    IN  IF Contains(clean_id, "plettenberg_bay") THEN "plettenberg_bay"
        ELSE IF Contains(clean_id, "pretoria_caravans") THEN "pretoria_caravans_outdoor"
        ELSE IF Contains(clean_id, "sportsmans_warehouse")
        THEN (IF location \in available_customers THEN location ELSE None)
        ELSE FirstVariation(variations, available_customers)

create_customer_id_mapping(d) ==
    LET available_customers == KeySet(d.customers)
        keyed == { r \in CustomerIdInvalid(d) : StartsWith(r, "cust_") }
    IN  [r \in keyed |-> CustomerIdTarget(r, available_customers)]

\* fix_customer_references (the method) without the test of the target
FixCustomerIdRefsToNone(recs, customer_mapping) ==
    [i \in 1..Len(recs) |->
        IF recs[i].customerId \in DOMAIN customer_mapping
        THEN [recs[i] EXCEPT !.customerId = customer_mapping[recs[i].customerId]]
        ELSE recs[i]]

\* fix_customer_references (the method): invoices, quotes, payments
FixCustomerIdRefs(recs, customer_mapping) ==
    [i \in 1..Len(recs) |->
        IF HasTarget(customer_mapping, recs[i].customerId)
        THEN [recs[i] EXCEPT !.customerId = customer_mapping[recs[i].customerId]]
        ELSE recs[i]]

(***************************************************************************)
(* Applying a customer mapping in the scripts: the test is                 *)
(* "old_customer_id in customer_mapping" alone                             *)
(***************************************************************************)

ApplyCustomerMapping(recs, customer_mapping) ==
    [i \in 1..Len(recs) |->
        IF recs[i].customerId \in DOMAIN customer_mapping
        THEN [recs[i] EXCEPT !.customerId = customer_mapping[recs[i].customerId]]
        ELSE recs[i]]

\* invoice_fixes / payment_fixes
CustomerFixes(recs, customer_mapping) ==
    Cardinality({ i \in 1..Len(recs) : recs[i].customerId \in DOMAIN customer_mapping })

(***************************************************************************)
(* fixCustomerProductIds.py                                                *)
(***************************************************************************)

PRODUCT_ID_MAPPINGS ==
    DictOf(<< <<"snowva_ultimate_ice_maker", "prod_snowva">>,
              <<"outray", "prod_outray">>,
              <<"makabrai", "prod_makabrai">> >>)

\* one pricing record under fix_customer_product_ids
FixCustomerPricing(pricing) ==
    LET old_product_id == pricing.productId
        new_product_id == PRODUCT_ID_MAPPINGS[old_product_id]
    IN  IF old_product_id \in DOMAIN PRODUCT_ID_MAPPINGS
        THEN [productId |-> new_product_id,
              prices |-> [k \in 1..Len(pricing.prices) |->
                            Replace(pricing.prices[k], old_product_id, new_product_id)],
              id |-> Replace(pricing.id, old_product_id, new_product_id)]
        ELSE pricing

(***************************************************************************)
(* manualCustomerFix.py                                                    *)
(***************************************************************************)

manual_mappings ==
    << <<"cust_aa_business_services", "a_a_business_services_pty_ltd">>,
       <<"cust_daramode__tuinroete_woonwaens", "t_a_tuinroete_woonwaens">>,
       <<"cust_limeco_minerals_braailholix", "limeco_minerals_pty_ltd_t_a_braailholix">>,
       <<"cust_riversdale_trading_bali_trading", "riversdale_trading_t_a_bali_trading">>,
       <<"cust_santonio_musina_foodzone", "santonio_cc_t_a_musina_foodzone">>,
       <<"cust_steyns_boumateriale", "steyn_s_boumateriale">>,
       <<"cust_walkers_midas_upington_4x4_mega_world",
         "walkers_midas_upington_t_a_4x4_mega_world">>,
       <<"cust_watko_promotional_branded_image", "watko_promotional_cc_t_a_branded_image">> >>

medium_mappings ==
    << <<"cust_estelle_menzies", "stellenbosch">>,
       <<"cust_johan_nel", "hahn_hahn">>,
       <<"cust_naomi_bouwer", "agri_bonus">>,
       <<"cust_lena_van_rensburg", "lydenburg">> >>

all_mappings == DictOf(manual_mappings \o medium_mappings)

(***************************************************************************)
(* State                                                                   *)
(***************************************************************************)

VARIABLES
    files,        \* the store in data/normalized
    prev,         \* the store as it was when the last script started
    lastOp,       \* the script (or method) that ran last
    ret,          \* what it returned, or that it raised
    lastMapping,  \* the mapping it built
    io,           \* the file operations it performed, in order
    rpc,          \* complete_firebase_remigration: "idle", "import", "run", "returned"
    calls,        \* the FirebaseAdmin calls the re-migration has completed
    machine       \* the machine the scripts run on: its time zone and its Python

vars == << files, prev, lastOp, ret, lastMapping, io, rpc, calls, machine >>

\* a time zone: the seconds east of UTC of its local time, offset before the
\* first of its changes and the offset of a change from the instant at of it
\* on; the changes are in the order of their instants
Zone(offset, changes) == [offset |-> offset, changes |-> changes]

\* UTC, which has no changes
Utc == Zone(0, << >>)

\* a machine: its time zone, and whether its Python is 3.11 or later
Machine(zone, py311) == [zone |-> zone, py311 |-> py311]

NoCounts == [customer_product |-> 0, invoice_customer |-> 0, invoice_product |-> 0,
             payment_customer |-> 0, payment_invoice |-> 0, parent |-> 0]

RetNone == [kind |-> "None", n |-> 0, b |-> FALSE, counts |-> NoCounts]
RetInt(n) == [kind |-> "int", n |-> n, b |-> (n # 0), counts |-> NoCounts]
RetBool(b, n) == [kind |-> "bool", n |-> n, b |-> b, counts |-> NoCounts]
RetRaise == [kind |-> "exception", n |-> 0, b |-> FALSE, counts |-> NoCounts]
RetVerify(r) ==
    [kind |-> "bool", n |-> r.total, b |-> r.success,
     counts |-> [customer_product |-> r.customer_product,
                 invoice_customer |-> r.invoice_customer,
                 invoice_product |-> r.invoice_product,
                 payment_customer |-> r.payment_customer,
                 payment_invoice |-> r.payment_invoice,
                 parent |-> r.parent]]

\* the scripts are run one at a time, by one operator
ScriptMayStart == rpc = "idle"

\* a script ran from start to end
Ran(op, newFiles, result, mapping, ops) ==
    /\ ScriptMayStart
    /\ files' = newFiles
    /\ prev' = files
    /\ lastOp' = op
    /\ ret' = result
    /\ lastMapping' = mapping
    /\ io' = ops
    /\ rpc' = "idle"
    /\ calls' = << >>
    /\ UNCHANGED machine

\* a script ran from start to end with outcome r and built no mapping
RanTo(op, r) == Ran(op, r.files, r.ret, EmptyMapping, r.io)

\* a script ran from start to end with outcome r, which holds its mapping
RanWith(op, r) == Ran(op, r.files, r.ret, r.mapping, r.io)

\* a script ran from start to end with outcome r; its mapping is a table it
\* builds after the files are loaded and analysed, so not when it raised
RanUsing(op, r, table) ==
    Ran(op, r.files, r.ret, IF r.ret = RetRaise THEN EmptyMapping ELSE table, r.io)

\* a script ran from start to end with outcome r; its mapping is a table it
\* holds before it opens the first file, so also when it raised
RanHolding(op, r, table) == Ran(op, r.files, r.ret, table, r.io)

(***************************************************************************)
(* Reading and writing the files.  A file operation is <<op, file>> with   *)
(* op "load" (open and json.load succeeded), "load_failed" (the file is    *)
(* missing or is not JSON), "write" (open for writing and json.dump) or    *)
(* "backup" (shutil.copy2 to a suffixed name).                             *)
(***************************************************************************)

Load(f) == << "load", f >>
LoadFailed(f) == << "load_failed", f >>
Write(f) == << "write", f >>

\* a keyed object with entries, where the code iterates a list of records:
\* the iteration yields the keys, and indexing a str by a name raises
KeyedRecords(s, f) == s.shape[f] = "dict" /\ Len(s[f]) > 0

\* The with-open / json.load blocks of order, from the i-th on: the
\* operations up to the first file that cannot be loaded, or that is in bad
\* (its loading block raises on the loaded value), and whether all loaded.
RECURSIVE LoadFrom(_, _, _, _)
LoadFrom(s, order, bad, i) ==
    IF i > Len(order) THEN [io |-> << >>, ok |-> TRUE]
    ELSE IF s.status[order[i]] # "ok"
    THEN [io |-> << LoadFailed(order[i]) >>, ok |-> FALSE]
    ELSE IF order[i] \in bad
    THEN [io |-> << Load(order[i]) >>, ok |-> FALSE]
    ELSE LET rest == LoadFrom(s, order, bad, i + 1)
         IN  [io |-> << Load(order[i]) >> \o rest.io, ok |-> rest.ok]

LoadAll(s, order, bad) == LoadFrom(s, order, bad, 1)

(***************************************************************************)
(* The scripts                                                             *)
(***************************************************************************)

\* a verifier that repairs as it goes: invoices of unknown customers are dropped
VerifyOutcomeDroppingViolations(s) ==
    LET loaded == LoadAll(s, << "customers", "products", "invoices", "payments" >>, {})
    IN  [files |-> IF loaded.ok /\ ~KeyedRecords(s, "invoices") /\ ~KeyedRecords(s, "payments")
                   THEN [s EXCEPT !.invoices =
                            SelectSeq(@, LAMBDA r : r.customerId \in IdSet(s.customers))]
                   ELSE s,
         ret |-> IF loaded.ok /\ ~KeyedRecords(s, "invoices") /\ ~KeyedRecords(s, "payments")
                 THEN RetVerify(verify_integrity(s))
                 ELSE RetRaise,
         io |-> loaded.io]

\* finalIntegrityCheck.py: load_data, then verify_integrity; invoices and
\* payments are taken to be lists
VerifyOutcome(s) ==
    LET loaded == LoadAll(s, << "customers", "products", "invoices", "payments" >>, {})
    IN  [files |-> s,
         ret |-> IF loaded.ok /\ ~KeyedRecords(s, "invoices") /\ ~KeyedRecords(s, "payments")
                 THEN RetVerify(verify_integrity(s))
                 ELSE RetRaise,
         io |-> loaded.io]

VerifyIntegrity == RanTo("verify_integrity", VerifyOutcome(files))

\* load_all_data with the files as they are: products.get needs an object,
\* invoices and payments are keyed from lists, quotes are read when present
LoadAllData(s) ==
    LoadAll(s,
            << "products", "customers", "invoices" >>
            \o (IF s.quotes.exists THEN << "quotes" >> ELSE << >>)
            \o << "payments" >>,
            (IF s.shape.products = "list" THEN { "products" } ELSE {})
            \cup (IF KeyedRecords(s, "invoices") THEN { "invoices" } ELSE {})
            \cup (IF KeyedRecords(s, "payments") THEN { "payments" } ELSE {}))

\* self.customers.items() / .keys() on a list
CustomersNotKeyed(s) == s.shape.customers = "list"

\* fixDataIntegrity.py: run_complete_fix
run_complete_fix(s) ==
    LET loaded == LoadAllData(s)
        d == load_all_data(s)
        product_mapping == create_product_id_mapping
        fixes_applied == ProductFixesApplied(d, product_mapping)
    IN  IF ~loaded.ok \/ CustomersNotKeyed(s) \/ PricingRaises(s.customers)
        THEN [files |-> s, ret |-> RetRaise, io |-> loaded.io]
        ELSE IF fixes_applied > 0
        THEN [files |-> save_fixed_data(s, FixProductData(d, product_mapping)),
              ret |-> RetBool(TRUE, fixes_applied),
              io |-> loaded.io \o SavedFiles(d)]
        ELSE [files |-> s, ret |-> RetBool(FALSE, fixes_applied), io |-> loaded.io]

RunCompleteFix == RanUsing("run_complete_fix", run_complete_fix(files), create_product_id_mapping)

\* finalCustomerFix.py: load_data; invoices and payments are iterated as lists
LoadData(s) ==
    LoadAll(s, << "customers", "invoices", "payments" >>, {})

\* finalCustomerFix.py: apply_customer_fixes
apply_customer_fixes(s, order) ==
    LET loaded == LoadData(s)
        customer_mapping == create_comprehensive_customer_mapping(s, order)
        invoice_fixes == CustomerFixes(s.invoices, customer_mapping)
        payment_fixes == CustomerFixes(s.payments, customer_mapping)
    IN  IF ~loaded.ok \/ KeyedRecords(s, "invoices") \/ KeyedRecords(s, "payments")
        THEN [files |-> s, ret |-> RetRaise, mapping |-> EmptyMapping, io |-> loaded.io]
        ELSE IF DOMAIN customer_mapping = {}
        THEN [files |-> s, ret |-> RetNone, mapping |-> customer_mapping, io |-> loaded.io]
        ELSE [files |-> [s EXCEPT
                            !.invoices = ApplyCustomerMapping(s.invoices, customer_mapping),
                            !.payments = ApplyCustomerMapping(s.payments, customer_mapping)],
              ret |-> RetInt(invoice_fixes + payment_fixes),
              mapping |-> customer_mapping,
              io |-> loaded.io \o loaded.io \o << Write("invoices"), Write("payments") >>]

ApplyCustomerFixes ==
    \E order \in Orders(IdSet(files.customers)) :
        RanWith("apply_customer_fixes", apply_customer_fixes(files, order))

\* finalCustomerFix.py run as a script: total_fixes = apply_customer_fixes(),
\* then total_fixes > 0, which raises TypeError on the None that
\* apply_customer_fixes returns for an empty mapping
ComparedWithZero(r) == [r EXCEPT !.ret = IF @.kind = "int" THEN RetNone ELSE RetRaise]

final_customer_fix_main(s, order) == ComparedWithZero(apply_customer_fixes(s, order))

FinalCustomerFixMain ==
    \E order \in Orders(IdSet(files.customers)) :
        RanWith("finalCustomerFix", final_customer_fix_main(files, order))

\* fixCustomerReferences.py: create_customer_mapping raises on a null
\* customerId, on keyed invoices and on a customers list
CustomerMappingRaises(s) ==
    \/ KeyedRecords(s, "invoices")
    \/ \E i \in 1..Len(s.invoices) : s.invoices[i].customerId = None
    \/ CustomersNotKeyed(s)

\* fixCustomerReferences.py: fix_customer_references.  The invoices are
\* written before the payments are opened; a missing payments file is
\* skipped, any other failure there leaves the invoices written.
fix_customer_references(s) ==
    LET mapping_loaded == LoadAll(s, << "customers", "invoices" >>, {})
        customer_mapping == create_customer_mapping(s)
        invoices_fixed == [s EXCEPT !.invoices = ApplyCustomerMapping(s.invoices, customer_mapping)]
        invoices_io == mapping_loaded.io \o << Load("invoices"), Write("invoices") >>
    IN  IF ~mapping_loaded.ok \/ CustomerMappingRaises(s)
        THEN [files |-> s, ret |-> RetRaise, mapping |-> EmptyMapping, io |-> mapping_loaded.io]
        ELSE IF s.status.payments = "missing"
        THEN [files |-> invoices_fixed, ret |-> RetNone, mapping |-> customer_mapping,
              io |-> invoices_io \o << LoadFailed("payments") >>]
        ELSE IF s.status.payments = "malformed"
        THEN [files |-> invoices_fixed, ret |-> RetRaise, mapping |-> customer_mapping,
              io |-> invoices_io \o << LoadFailed("payments") >>]
        ELSE IF KeyedRecords(s, "payments")
        THEN [files |-> invoices_fixed, ret |-> RetRaise, mapping |-> customer_mapping,
              io |-> invoices_io \o << Load("payments") >>]
        ELSE [files |-> [invoices_fixed EXCEPT
                            !.payments = ApplyCustomerMapping(s.payments, customer_mapping)],
              ret |-> RetNone,
              mapping |-> customer_mapping,
              io |-> invoices_io \o << Load("payments"), Write("payments") >>]

FixCustomerReferences == RanWith("fix_customer_references", fix_customer_references(files))

\* fixCustomerProductIds.py: fix_customer_product_ids
fix_customer_product_ids(s) ==
    LET loaded == LoadAll(s, << "customers" >>, {})
        total_fixes ==
            Cardinality(UNION { { <<c, k>> :
                k \in { k \in 1..Len(s.customers[c].customProductPricing.items) :
                          s.customers[c].customProductPricing.items[k].productId
                              \in DOMAIN PRODUCT_ID_MAPPINGS } }
                : c \in 1..Len(s.customers) })
    IN  IF ~loaded.ok \/ CustomersNotKeyed(s) \/ PricingRaises(s.customers)
        THEN [files |-> s, ret |-> RetRaise, io |-> loaded.io]
        ELSE [files |-> [s EXCEPT !.customers = [c \in 1..Len(s.customers) |->
                    [s.customers[c] EXCEPT !.customProductPricing.items =
                        [k \in 1..Len(s.customers[c].customProductPricing.items) |->
                            FixCustomerPricing(s.customers[c].customProductPricing.items[k])]]]],
              ret |-> RetInt(total_fixes),
              io |-> loaded.io \o << Write("customers") >>]

FixCustomerProductIds == RanHolding("fix_customer_product_ids", fix_customer_product_ids(files), PRODUCT_ID_MAPPINGS)

\* manualCustomerFix.py: apply_manual_customer_mappings
apply_manual_customer_mappings(s) ==
    LET loaded == LoadAll(s, << "invoices", "payments" >>, {})
    IN  IF ~loaded.ok \/ KeyedRecords(s, "invoices") \/ KeyedRecords(s, "payments")
        THEN [files |-> s, ret |-> RetRaise, io |-> loaded.io]
        ELSE [files |-> [s EXCEPT !.invoices = ApplyCustomerMapping(s.invoices, all_mappings),
                                  !.payments = ApplyCustomerMapping(s.payments, all_mappings)],
              ret |-> RetInt(CustomerFixes(s.invoices, all_mappings)
                             + CustomerFixes(s.payments, all_mappings)),
              io |-> loaded.io \o << Write("invoices"), Write("payments") >>]

ApplyManualCustomerMappings == RanHolding("apply_manual_customer_mappings", apply_manual_customer_mappings(files), all_mappings)

\* DataIntegrityFixer: load_all_data, then create_customer_id_mapping
customer_id_mapping(s) ==
    LET loaded == LoadAllData(s)
    IN  IF ~loaded.ok \/ CustomersNotKeyed(s)
        THEN [files |-> s, ret |-> RetRaise, mapping |-> EmptyMapping, io |-> loaded.io]
        ELSE [files |-> s, ret |-> RetNone,
              mapping |-> create_customer_id_mapping(load_all_data(s)), io |-> loaded.io]

CreateCustomerIdMapping == RanWith("create_customer_id_mapping", customer_id_mapping(files))

(***************************************************************************)
(* verifyDataIntegrity.py                                                  *)
(***************************************************************************)

\* load_json_file on each of the four files: a missing or malformed file
\* gives None and the next file is still opened
LoadEach(s, order) ==
    [i \in 1..Len(order) |->
        IF s.status[order[i]] = "ok" THEN Load(order[i]) ELSE LoadFailed(order[i])]

\* the verifier with the loaded value made a list without yielding records:
\* list(products.values()) of {"products": {...}} is the inner object, which
\* has no "id"; custom_pricing.items() needs an object
VerifyDataRaises(s) ==
    \/ s.shape.products = "nested"
    \/ \E c \in 1..Len(s.customers) : s.customers[c].customProductPricing.kind = "list"

\* verify_data_integrity: False when a file cannot be loaded, else the same
\* six checks as verify_integrity over lists made of the loaded values
verify_data_integrity(s) ==
    LET order == << "customers", "products", "invoices", "payments" >>
    IN  [files |-> s,
         ret |-> IF \E i \in 1..Len(order) : s.status[order[i]] # "ok"
                 THEN RetBool(FALSE, 0)
                 ELSE IF VerifyDataRaises(s) THEN RetRaise
                 ELSE RetVerify(verify_integrity(s)),
         io |-> LoadEach(s, order)]

VerifyDataIntegrity == RanTo("verify_data_integrity", verify_data_integrity(files))

(***************************************************************************)
(* analyzeUnmapped.py                                                      *)
(***************************************************************************)

\* the number of positions from i in a and from j in b, below ahi and bhi,
\* on which a and b agree
RECURSIVE CommonRun(_, _, _, _, _, _)
CommonRun(a, i, ahi, b, j, bhi) ==
    IF i > ahi \/ j > bhi \/ Slice(a, i, i) # Slice(b, j, j) THEN 0
    ELSE 1 + CommonRun(a, i + 1, ahi, b, j + 1, bhi)

\* the number of times the character c stands in b
Occurrences(b, c) == Cardinality({ j \in 1..Len(b) : Slice(b, j, j) = c })

\* SequenceMatcher.bpopular (autojunk is on): in a b of 200 characters or
\* more, the characters that stand in it more than len(b) // 100 + 1 times;
\* they are taken out of the index b2j
bpopular(b) ==
    IF Len(b) >= 200
    THEN { Slice(b, j, j) :
             j \in { k \in 1..Len(b) :
                       Occurrences(b, Slice(b, k, k)) > Len(b) \div 100 + 1 } }
    ELSE {}

\* as CommonRun, over the characters that are in the index
RECURSIVE IndexedRun(_, _, _, _, _, _, _)
IndexedRun(a, i, ahi, b, j, bhi, popular) ==
    IF \/ i > ahi \/ j > bhi
       \/ Slice(a, i, i) # Slice(b, j, j)
       \/ Slice(b, j, j) \in popular
    THEN 0
    ELSE 1 + IndexedRun(a, i + 1, ahi, b, j + 1, bhi, popular)

\* the number of positions from i in a and from j in b downwards, not below
\* alo and blo, on which a and b agree
RECURSIVE CommonRunBack(_, _, _, _, _, _)
CommonRunBack(a, i, alo, b, j, blo) ==
    IF i < alo \/ j < blo \/ Slice(a, i, i) # Slice(b, j, j) THEN 0
    ELSE 1 + CommonRunBack(a, i - 1, alo, b, j - 1, blo)

MaxOf(ns) == CHOOSE n \in ns : \A m \in ns : m <= n

\* of the blocks of size k the one with the smallest i, then the smallest j
LeftmostOf(blocks, k) ==
    CHOOSE x \in blocks :
        /\ x[3] = k
        /\ \A y \in blocks :
              y[3] = k => (x[1] < y[1] \/ (x[1] = y[1] /\ x[2] <= y[2]))

\* the longest block of indexed characters: k largest, then i smallest, then
\* j smallest; <<alo, blo, 0>> when nothing matches
LongestOf(blocks, alo, blo) ==
    IF blocks = {} THEN << alo, blo, 0 >>
    ELSE LeftmostOf(blocks, MaxOf({ x[3] : x \in blocks }))

\* "Extend the best by non-junk elements on each end": the block m grown
\* downwards by back positions, then upwards as far as a and b agree; this
\* takes in the popular characters next to it
ExtendedBy(a, ahi, b, bhi, m, back) ==
    << m[1] - back, m[2] - back,
       m[3] + back + CommonRun(a, m[1] + m[3], ahi, b, m[2] + m[3], bhi) >>

Extended(a, alo, ahi, b, blo, bhi, m) ==
    ExtendedBy(a, ahi, b, bhi, m, CommonRunBack(a, m[1] - 1, alo, b, m[2] - 1, blo))

LongestIndexed(a, alo, ahi, b, blo, bhi, popular) ==
    Extended(a, alo, ahi, b, blo, bhi,
             LongestOf({ << i, j, IndexedRun(a, i, ahi, b, j, bhi, popular) >> :
                           i \in alo..ahi, j \in blo..bhi },
                       alo, blo))

\* SequenceMatcher.find_longest_match on a[alo..ahi], b[blo..bhi]: <<i, j, k>>
find_longest_match(a, alo, ahi, b, blo, bhi) ==
    LongestIndexed(a, alo, ahi, b, blo, bhi, bpopular(b))

\* the sum of the sizes of SequenceMatcher.get_matching_blocks: the longest
\* match m, and the blocks to its left and to its right
RECURSIVE MatchingSize(_, _, _, _, _, _)
AroundMatch(a, alo, ahi, b, blo, bhi, m) ==
    IF m[3] = 0 THEN 0
    ELSE MatchingSize(a, alo, m[1] - 1, b, blo, m[2] - 1)
         + m[3]
         + MatchingSize(a, m[1] + m[3], ahi, b, m[2] + m[3], bhi)

MatchingSize(a, alo, ahi, b, blo, bhi) ==
    AroundMatch(a, alo, ahi, b, blo, bhi, find_longest_match(a, alo, ahi, b, blo, bhi))

\* similarity(a, b) = ratio() = 2.0 * matches / (len(a) + len(b)), as the
\* fraction <<numerator, denominator>>; 1.0 for two empty strings
similarity(a, b) ==
    LET la == Lower(a)
        lb == Lower(b)
    IN  IF Len(la) + Len(lb) = 0 THEN << 1, 1 >>
        ELSE << 2 * MatchingSize(la, 1, Len(la), lb, 1, Len(lb)), Len(la) + Len(lb) >>

\* sim > 0.3
AboveThreshold(sim) == 10 * sim[1] > 3 * sim[2]

\* sim of x is greater than sim of y
MoreSimilar(x, y) == x[1] * y[2] > y[1] * x[2]

\* matches.sort(key=lambda x: x[1], reverse=True): a stable sort, the ids of
\* equal similarity keep the order in which they were appended
RECURSIVE SortedBySimilarity(_, _)
SortedBySimilarity(clean_ref, ids) ==
    IF Len(ids) = 0 THEN << >>
    ELSE LET best == CHOOSE i \in 1..Len(ids) :
                        \A j \in 1..Len(ids) :
                            \/ MoreSimilar(similarity(clean_ref, ids[i]),
                                           similarity(clean_ref, ids[j]))
                            \/ /\ ~MoreSimilar(similarity(clean_ref, ids[j]),
                                               similarity(clean_ref, ids[i]))
                               /\ i <= j
         IN  << ids[best] >>
             \o SortedBySimilarity(clean_ref,
                                   [k \in 1..(Len(ids) - 1) |->
                                       IF k < best THEN ids[k] ELSE ids[k + 1]])

\* the candidates printed for one invalid reference: the ids whose similarity
\* to the reference without "cust_" exceeds 0.3, best first, five at most;
\* order is the iteration order of the set actual_customer_ids
possible_matches(invalid_ref, order) ==
    LET clean_ref == Replace(invalid_ref, "cust_", "")
        Similar(actual_id) == AboveThreshold(similarity(clean_ref, actual_id))
        matches == SortedBySimilarity(clean_ref, SelectSeq(order, Similar))
    IN  SubSeq(matches, 1, IF Len(matches) < 5 THEN Len(matches) ELSE 5)

\* analyze_unmapped_customers: customers must be keyed (.values()), invoices
\* and payments lists; it prints and writes no file
analyze_unmapped_customers(s) ==
    LET loaded == LoadAll(s, << "customers", "invoices", "payments" >>, {})
    IN  [files |-> s,
         ret |-> IF /\ loaded.ok
                    /\ ~CustomersNotKeyed(s)
                    /\ ~KeyedRecords(s, "invoices")
                    /\ ~KeyedRecords(s, "payments")
                 THEN RetNone ELSE RetRaise,
         io |-> loaded.io]

AnalyzeUnmappedCustomers == RanTo("analyze_unmapped_customers", analyze_unmapped_customers(files))

(***************************************************************************)
(* completeFirebaseRemigration.py: complete_firebase_remigration           *)
(***************************************************************************)

collections_to_clear == << "products", "customers", "invoices", "payments" >>

\* the calls with the customers uploaded before the payments are cleared
RemigrationCallsUploadingEarly ==
    << << "clearCollection", "products" >>, << "clearCollection", "customers" >>,
       << "clearCollection", "invoices" >>, << "migrateProducts", "products" >>,
       << "migrateCustomers", "customers" >>, << "clearCollection", "payments" >>,
       << "migrateInvoices", "invoices" >>, << "migratePayments", "payments" >> >>

\* the awaited FirebaseAdmin calls, in program order
RemigrationCalls ==
    [i \in 1..Len(collections_to_clear) |-> << "clearCollection", collections_to_clear[i] >>]
    \o << << "migrateProducts", "products" >>, << "migrateCustomers", "customers" >>,
          << "migrateInvoices", "invoices" >>, << "migratePayments", "payments" >> >>

RemigrationBegin ==
    /\ ScriptMayStart
    /\ rpc' = "import"
    /\ calls' = << >>
    /\ prev' = files
    /\ lastOp' = "complete_firebase_remigration"
    /\ ret' = RetNone
    /\ lastMapping' = EmptyMapping
    /\ io' = << >>
    /\ UNCHANGED << files, machine >>

\* from utils.dataMigration import FirebaseAdmin; admin = FirebaseAdmin()
RemigrationImport ==
    /\ rpc = "import"
    /\ \/ rpc' = "run" /\ UNCHANGED ret
       \/ rpc' = "returned" /\ ret' = RetBool(FALSE, 0)
    /\ UNCHANGED << files, prev, lastOp, lastMapping, io, calls, machine >>

\* the next awaited call completes, or raises
RemigrationCall ==
    /\ rpc = "run"
    /\ Len(calls) < Len(RemigrationCalls)
    /\ \/ calls' = Append(calls, RemigrationCalls[Len(calls) + 1]) /\ UNCHANGED << rpc, ret >>
       \/ rpc' = "returned" /\ ret' = RetBool(FALSE, 0) /\ UNCHANGED calls
    /\ UNCHANGED << files, prev, lastOp, lastMapping, io, machine >>

RemigrationReturn ==
    /\ rpc = "run"
    /\ Len(calls) = Len(RemigrationCalls)
    /\ rpc' = "returned"
    /\ ret' = RetBool(TRUE, 0)
    /\ UNCHANGED << files, prev, lastOp, lastMapping, io, calls, machine >>

\* the process ends: exit status and printed next steps
RemigrationExit ==
    /\ rpc = "returned"
    /\ rpc' = "idle"
    /\ calls' = << >>
    /\ UNCHANGED << files, prev, lastOp, ret, lastMapping, io, machine >>

(***************************************************************************)
(* Initial stores                                                          *)
(***************************************************************************)

MaxInvoices == 1
MaxPayments == 1

SeqsUpTo(U, n) == UNION { [1..k -> U] : k \in 0..n }

InvoiceIds == << "inv_1", "inv_2", "inv_3" >>
PaymentIds == << "pay_1", "pay_2", "pay_3" >>

Customer(id, parent, pricing) ==
    [key |-> id, id |-> id, parentCompanyId |-> parent, customProductPricing |-> pricing]

Product(id) == [key |-> id, id |-> id]

NoQuotes == [exists |-> FALSE, recs |-> << >>]

\* the files as the scripts' comments describe them: customers keyed by id,
\* products under a "products" key, the others arrays
DefaultShape ==
    [customers |-> "dict", products |-> "nested", invoices |-> "list",
     payments |-> "list", quotes |-> "list"]

AllOk ==
    [customers |-> "ok", products |-> "ok", invoices |-> "ok",
     payments |-> "ok", quotes |-> "ok"]

\* customer ids in the order the customers file lists them
CustomerIds == << "a", "cust_a", "plettenberg_bay", "riversdale", "sportsmans_warehouse" >>

CustomerIdSets ==
    { {"a"}, {"a", "cust_a"}, {"plettenberg_bay"}, {"riversdale"},
      {"sportsmans_warehouse"}, {"a", "sportsmans_warehouse"} }

PlainCustomers(S) ==
    LET In(id) == id \in S
        ids == SelectSeq(CustomerIds, In)
    IN  [i \in 1..Len(ids) |-> Customer(ids[i], None, NoPricing)]

\* customerId values of invoices and of payments
InvoiceCustomerIds ==
    { None, "cust_a", "cust_cust_a", "cust_plettenberg_bay",
      "cust_sportsmans_warehouse", "cust_sportsmans_warehouse__plettenberg_bay",
      "cust_riversdale__a", "v" }

PaymentCustomerIds == { "v", "cust_johan_nel" }

ProductsFile == << Product("prod_outray"), Product("prod_braai_bak_5_2l") >>

InvoiceRefRecs(ic) ==
    [i \in 1..Len(ic) |-> [id |-> InvoiceIds[i], customerId |-> ic[i], lineItems |-> << >>]]

PaymentRefRecs(pc) ==
    [i \in 1..Len(pc) |->
        [id |-> PaymentIds[i], customerId |-> pc[i], allocatedInvoices |-> << >>]]

\* stores that differ in their customers and in the invoices' customer references
InvoiceRefStores ==
    { [customers |-> PlainCustomers(S),
       products |-> ProductsFile,
       invoices |-> InvoiceRefRecs(ic),
       payments |-> << >>,
       quotes |-> NoQuotes,
       shape |-> DefaultShape,
       status |-> AllOk]
      : S \in CustomerIdSets, ic \in SeqsUpTo(InvoiceCustomerIds, MaxInvoices) }

\* stores that differ in their customers and in the payments' customer references
PaymentRefStores ==
    { [customers |-> PlainCustomers(S),
       products |-> ProductsFile,
       invoices |-> InvoiceRefRecs(ic),
       payments |-> PaymentRefRecs(pc),
       quotes |-> NoQuotes,
       shape |-> DefaultShape,
       status |-> AllOk]
      : S \in CustomerIdSets, ic \in { << >>, << "cust_a" >> },
        pc \in SeqsUpTo(PaymentCustomerIds, MaxPayments) \ { << >> } }

\* customProductPricing values
Pricings ==
    { NoPricing,
      ListPricing(<< [id |-> "a_outray", productId |-> "outray",
                      prices |-> << "a_outray_1", "a_outray_outray_2" >>] >>),
      ListPricing(<< [id |-> "a_prod_outray", productId |-> "prod_outray",
                      prices |-> << "a_prod_outray_1" >>] >>),
      ListPricing(<< [id |-> "a_v", productId |-> "v", prices |-> << >>],
                     [id |-> "outray_outray", productId |-> "outray", prices |-> << >>] >>),
      DictPricing(<< >>),
      DictPricing(<< "prod_outray" >>),
      DictPricing(<< "outray", "" >>) }

LineItemProductIds == { None, "prod_outray", "outray", "v" }

ProductFiles == { << Product("prod_outray") >>, << Product("prod_braai_bak_5_2l") >> }

LineItemRecs(ids, lp) ==
    [i \in 1..Len(lp) |->
        [id |-> ids[i], customerId |-> "a",
         lineItems |-> << [id |-> "item_1", productId |-> lp[i]] >>]]

QuoteFiles ==
    { NoQuotes,
      [exists |-> TRUE, recs |-> LineItemRecs(<< "quote_1" >>, << "outray" >>)] }

\* stores that differ in a customer's pricing, the products and the quotes
PricingStores ==
    { [customers |-> << Customer("a", None, pr) >>,
       products |-> pf,
       invoices |-> << >>,
       payments |-> << >>,
       quotes |-> q,
       shape |-> DefaultShape,
       status |-> AllOk]
      : pr \in Pricings, pf \in ProductFiles, q \in QuoteFiles }

\* stores that differ in the invoices' line items
LineItemStores ==
    { [customers |-> << Customer("a", None, NoPricing) >>,
       products |-> pf,
       invoices |-> LineItemRecs(InvoiceIds, lp),
       payments |-> << >>,
       quotes |-> NoQuotes,
       shape |-> DefaultShape,
       status |-> AllOk]
      : pf \in ProductFiles, lp \in SeqsUpTo(LineItemProductIds, MaxInvoices) \ { << >> } }

ParentIds == { None, "", "a", "cust_a" }
AllocatedInvoiceIds == { None, "", "inv_1", "inv_9" }

\* stores that differ in parent and allocation references
RelationStores ==
    { [customers |-> << Customer("a", par, NoPricing) >>,
       products |-> ProductsFile,
       invoices |-> LineItemRecs(InvoiceIds, lp),
       payments |-> [i \in 1..Len(al) |->
                        [id |-> PaymentIds[i], customerId |-> "a",
                         allocatedInvoices |-> << al[i] >>]],
       quotes |-> NoQuotes,
       shape |-> DefaultShape,
       status |-> AllOk]
      : par \in ParentIds,
        lp \in { << >>, << "prod_outray" >> },
        al \in SeqsUpTo(AllocatedInvoiceIds, MaxPayments) \ { << >> } }

\* a list or a keyed object per collection; products also nested
Shapes ==
    [customers : { "dict", "list" }, products : { "nested", "dict", "list" },
     invoices : { "list", "dict" }, payments : { "list", "dict" },
     quotes : { "list", "dict" }]

\* quotes whose line items need no fix
CleanQuotes == [exists |-> TRUE, recs |-> LineItemRecs(<< "quote_1" >>, << "prod_outray" >>)]

\* stores that differ in the shape of their files
ShapeStores ==
    { st \in
    { [customers |-> << Customer("a", None, NoPricing) >>,
       products |-> ProductsFile,
       invoices |-> iv,
       payments |-> << >>,
       quotes |-> q,
       shape |-> sh,
       status |-> AllOk]
      : iv \in { << >>, [LineItemRecs(InvoiceIds, << "outray" >>) EXCEPT ![1].customerId = "cust_a"] },
        q \in { NoQuotes, CleanQuotes },
        sh \in Shapes }
      : st.quotes.exists \/ st.shape.quotes = "list" }

\* one file missing or not JSON
Statuses ==
    { [AllOk EXCEPT ![f] = st] :
        f \in { "customers", "products", "invoices", "payments" },
        st \in { "missing", "malformed" } }
    \cup { [AllOk EXCEPT !.quotes = "malformed"] }

\* stores one of whose files cannot be loaded
LoadFailureStores ==
    { s \in
    { [customers |-> << Customer("a", None, pr) >>,
       products |-> ProductsFile,
       invoices |-> InvoiceRefRecs(<< "cust_a" >>),
       payments |-> PaymentRefRecs(<< "cust_a" >>),
       quotes |-> q,
       shape |-> DefaultShape,
       status |-> st]
      : pr \in { NoPricing,
                 ListPricing(<< [id |-> "a_outray", productId |-> "outray",
                                 prices |-> << >>] >>) },
        q \in { NoQuotes, CleanQuotes },
        st \in Statuses }
      : s.quotes.exists \/ s.status.quotes = "ok" }

\* identifiers that occur as a customer reference and as a product reference
CrossReferenceIds == { "cust_a", "outray" }

\* stores in which a parent reference, a customer reference and a product
\* reference hold the same kind of invalid identifier
CrossReferenceStores ==
    { [customers |-> << Customer("a", None, NoPricing), Customer("riversdale", par, pr) >>,
       products |-> ProductsFile,
       invoices |-> << [id |-> "inv_1", customerId |-> ic,
                        lineItems |-> << [id |-> "item_1", productId |-> lp] >>] >>,
       payments |-> << [id |-> "pay_1", customerId |-> ic,
                        allocatedInvoices |-> << "inv_1" >>] >>,
       quotes |-> NoQuotes,
       shape |-> DefaultShape,
       status |-> AllOk]
      : par \in CrossReferenceIds, ic \in CrossReferenceIds, lp \in CrossReferenceIds,
        pr \in { NoPricing,
                 ListPricing(<< [id |-> "cust_a_outray", productId |-> "outray",
                                 prices |-> << "cust_a_outray_1" >>] >>) } }

\* stores whose invoices or payments hold two records with the same id
DuplicateIdStores ==
    { [customers |-> << Customer("a", None, NoPricing) >>,
       products |-> ProductsFile,
       invoices |-> [i \in 1..Len(ids) |->
                        [id |-> ids[i], customerId |-> IF i = 1 THEN "a" ELSE "cust_a",
                         lineItems |-> << [id |-> "item_1", productId |-> "outray"] >>]],
       payments |-> [i \in 1..Len(pids) |->
                        [id |-> pids[i], customerId |-> "a",
                         allocatedInvoices |-> << "inv_1" >>]],
       quotes |-> NoQuotes,
       shape |-> DefaultShape,
       status |-> AllOk]
      : ids \in { << "inv_1", "inv_1" >>, << "inv_1", "inv_2", "inv_1" >> },
        pids \in { << "pay_1" >>, << "pay_1", "pay_1" >> } }

InitialStores ==
    InvoiceRefStores \cup PaymentRefStores \cup PricingStores
    \cup LineItemStores \cup RelationStores \cup ShapeStores \cup LoadFailureStores
    \cup CrossReferenceStores \cup DuplicateIdStores

Init ==
    /\ files \in InitialStores
    /\ prev = files
    /\ lastOp = "none"
    /\ ret = RetNone
    /\ lastMapping = EmptyMapping
    /\ io = << >>
    /\ rpc = "idle"
    /\ calls = << >>
    \* the stores of Init hold no dates
    /\ machine = Machine(Utc, TRUE)


(***************************************************************************)
(* migrate_invoices_timestamps.py, migrate_payments_timestamps.py          *)
(***************************************************************************)

\* a key the record does not have
Absent == "<absent>"

DigitChars == "0123456789"

IsDigit(c) == \E d \in 1..10 : Slice(DigitChars, d, d) = c

DigitValue(c) == (CHOOSE d \in 1..10 : Slice(DigitChars, d, d) = c) - 1

AllDigits(s) == \A i \in 1..Len(s) : IsDigit(Slice(s, i, i))

\* int(s) of a string of digits
RECURSIVE ParseInt(_)
ParseInt(s) ==
    IF Len(s) = 0 THEN 0
    ELSE 10 * ParseInt(Slice(s, 1, Len(s) - 1)) + DigitValue(Slice(s, Len(s), Len(s)))

\* the character of s at position i, "" past its end
CharAt(s, i) == IF i \in 1..Len(s) THEN Slice(s, i, i) ELSE ""

\* the number of the n digits of s from position i on, -1 when one of them
\* is not a digit
Digits(s, i, n) ==
    IF i >= 1 /\ i + n - 1 <= Len(s) /\ AllDigits(Slice(s, i, i + n - 1))
    THEN ParseInt(Slice(s, i, i + n - 1))
    ELSE 0 - 1

IsLeap(y) == (y % 4 = 0 /\ y % 100 # 0) \/ y % 400 = 0

DaysInMonth(y, m) ==
    IF m = 2 THEN (IF IsLeap(y) THEN 29 ELSE 28)
    ELSE IF m \in { 4, 6, 9, 11 } THEN 30 ELSE 31

\* days from 1970-01-01 to the civil date y-m-d
DaysFromCivil(y, m, d) ==
    LET yy == IF m <= 2 THEN y - 1 ELSE y
        era == yy \div 400
        yoe == yy - era * 400
        mp == IF m > 2 THEN m - 3 ELSE m + 9
        doy == (153 * mp + 2) \div 5 + d - 1
        doe == yoe * 365 + yoe \div 4 - yoe \div 100 + doy
    IN  era * 146097 + doe - 719468

\* date.min and date.max, in days from 1970-01-01
MinDay == DaysFromCivil(1, 1, 1)
MaxDay == DaysFromCivil(9999, 12, 31)

\* a datetime: the day (days from 1970-01-01), the second of the day, the
\* microsecond, and, when it is aware, the offset of its time zone from UTC in
\* seconds and microseconds; ok is FALSE where the constructor or the parser
\* raises
NotParsed ==
    [ok |-> FALSE, days |-> 0, secs |-> 0, microsecond |-> 0,
     aware |-> FALSE, offset |-> 0, offset_microsecond |-> 0]

\* the date y-m-d when there is such a day
CivilDate(y, m, d) ==
    IF y \in 1..9999 /\ m \in 1..12 /\ d \in 1..DaysInMonth(y, m)
    THEN [NotParsed EXCEPT !.ok = TRUE, !.days = DaysFromCivil(y, m, d)]
    ELSE NotParsed

\* the weekday of the first of January of year, 0 being Monday
FirstWeekday(year) == (DaysFromCivil(year, 1, 1) + 3) % 7

\* the Monday of ISO week 1 of year
IsoWeek1Monday(year) ==
    DaysFromCivil(year, 1, 1) - FirstWeekday(year)
        + (IF FirstWeekday(year) > 3 THEN 7 ELSE 0)

\* a year has a week 53 when it starts on a Thursday, or on a Wednesday and
\* is a leap year
HasWeek53(year) ==
    FirstWeekday(year) = 3 \/ (FirstWeekday(year) = 2 /\ IsLeap(year))

\* the day of a date that lies within date.min .. date.max
DayInRange(days) ==
    IF days \in MinDay..MaxDay
    THEN [NotParsed EXCEPT !.ok = TRUE, !.days = days]
    ELSE NotParsed

\* the date of day (1 is Monday) of ISO week of year
IsoWeekDate(year, week, day) ==
    IF /\ year \in 1..9999
       /\ (week \in 1..52 \/ (week = 53 /\ HasWeek53(year)))
       /\ day \in 1..7
    THEN DayInRange(IsoWeek1Monday(year) + (week - 1) * 7 + day - 1)
    ELSE NotParsed

\* "Www" and an optional day of the week, q being the position after "Www"
\* and dash 1 where the date is written with "-"
ParseWeekDate(s, year, dash, q) ==
    IF Digits(s, q - 2, 2) < 0 THEN NotParsed
    ELSE IF q - 1 >= Len(s) THEN IsoWeekDate(year, Digits(s, q - 2, 2), 1)
    ELSE IF dash = 1 /\ CharAt(s, q) # "-" THEN NotParsed
    ELSE IsoWeekDate(year, Digits(s, q - 2, 2), Digits(s, q + dash, 1))

\* the date after its year: a week date, or a month and a day
ParseAfterYear(s, year, dash) ==
    IF CharAt(s, 5 + dash) = "W" THEN ParseWeekDate(s, year, dash, 8 + dash)
    ELSE IF dash = 1 /\ CharAt(s, 8) # "-" THEN NotParsed
    ELSE CivilDate(year, Digits(s, 5 + dash, 2), Digits(s, 7 + 2 * dash, 2))

\* the date part of an ISO string. py311 is TRUE for the parser of
\* Python 3.11 and later ("YYYY-MM-DD", "YYYYMMDD", "YYYY-Www", "YYYYWww",
\* "YYYY-Www-d", "YYYYWwwd") and FALSE for the one of Python 3.7 to 3.10
\* ("YYYY-MM-DD")
ParseDate(s, py311) ==
    IF ~py311
    THEN (IF Len(s) = 10 /\ CharAt(s, 5) = "-" /\ CharAt(s, 8) = "-"
          THEN CivilDate(Digits(s, 1, 4), Digits(s, 6, 2), Digits(s, 9, 2))
          ELSE NotParsed)
    ELSE IF Len(s) \notin { 7, 8, 10 } \/ Digits(s, 1, 4) < 0 THEN NotParsed
    ELSE ParseAfterYear(s, Digits(s, 1, 4), IF CharAt(s, 5) = "-" THEN 1 ELSE 0)

\* the position of the first character from i on that is not a digit
RECURSIVE AfterDigits(_, _)
AfterDigits(s, i) ==
    IF i <= Len(s) /\ IsDigit(CharAt(s, i)) THEN AfterDigits(s, i + 1) ELSE i

\* the length of the date part of a string that starts "YYYYW": the digits
\* after "Www" decide
BasicWeekLength(idx) ==
    IF idx < 9 THEN idx ELSE IF idx % 2 = 0 THEN 7 ELSE 8

\* the length of the date part of the string, -1 where there is none
\* (Python 3.11 and later; before, it is 10)
SeparatorLocation(s) ==
    IF Len(s) = 7 THEN 7
    ELSE IF CharAt(s, 5) = "-"
    THEN (IF CharAt(s, 6) # "W" THEN 10
          ELSE IF Len(s) < 8 THEN 0 - 1
          ELSE IF Len(s) > 8 /\ CharAt(s, 9) = "-"
          THEN (IF Len(s) = 9 THEN 0 - 1
                ELSE IF Len(s) > 10 /\ IsDigit(CharAt(s, 11)) THEN 8
                ELSE 10)
          ELSE 8)
    ELSE IF CharAt(s, 5) = "W" THEN BasicWeekLength(AfterDigits(s, 8) - 1)
    ELSE 8

\* what is read of a time: rv is -1 where it is malformed, 1 where characters
\* follow what was read, 0 otherwise; vals are the hour, minute and second
ClockFailed == [rv |-> 0 - 1, vals |-> << 0, 0, 0 >>, us |-> 0]

Padded(vals) == vals \o [k \in 1..(3 - Len(vals)) |-> 0]

ClockRead(following, vals, us) ==
    [rv |-> IF following # "" THEN 1 ELSE 0, vals |-> Padded(vals), us |-> us]

\* the factor of a fraction of to_parse digits
correction == << 100000, 10000, 1000, 100, 10, 1 >>

\* the number of digits of a fraction that are read, of the rem characters to
\* the end of the time: up to six from Python 3.11 on, three or six (0 here
\* for any other number) before
ToParse(rem, py311) ==
    IF py311 THEN (IF rem >= 6 THEN 6 ELSE rem)
    ELSE IF rem \in { 3, 6 } THEN rem ELSE 0

\* the microseconds of the fraction at position q; from Python 3.11 on the
\* digits after the sixth are skipped
ParseFraction(s, q, to_parse, vals, py311) ==
    IF to_parse < 1 \/ Digits(s, q, to_parse) < 0 THEN ClockFailed
    ELSE ClockRead(CharAt(s, IF py311 THEN AfterDigits(s, q + to_parse) ELSE q + to_parse),
                   vals, Digits(s, q, to_parse) * correction[to_parse])

\* the hour, minute, second and fraction from position p to p_end: i counts
\* the components read, c is the character after the two digits at p and q
\* the position after it; has_separator tells whether the components are
\* separated by ":", which the first decides from Python 3.11 on
RECURSIVE parse_hh_mm_ss_ff(_, _, _, _, _, _, _)
RECURSIVE AfterComponent(_, _, _, _, _, _, _, _)
AfterComponent(s, q, p_end, i, has_separator, vals, c, py311) ==
    IF q >= p_end THEN ClockRead(c, vals, 0)
    ELSE IF has_separator /\ c = ":"
    THEN (IF i < 2 THEN parse_hh_mm_ss_ff(s, q, p_end, i + 1, has_separator, vals, py311)
          ELSE ParseFraction(s, q, ToParse(p_end - q, py311), vals, py311))
    ELSE IF c = "." \/ (py311 /\ c = ",")
    THEN ParseFraction(s, q, ToParse(p_end - q, py311), vals, py311)
    ELSE IF py311 /\ ~has_separator
    THEN (IF i < 2 THEN parse_hh_mm_ss_ff(s, q - 1, p_end, i + 1, has_separator, vals, py311)
          ELSE ParseFraction(s, q - 1, ToParse(p_end - q + 1, py311), vals, py311))
    ELSE ClockFailed

parse_hh_mm_ss_ff(s, p, p_end, i, has_separator, vals, py311) ==
    IF Digits(s, p, 2) < 0 THEN ClockFailed
    ELSE AfterComponent(s, p + 3, p_end, i,
                        IF i > 0 THEN has_separator
                        ELSE IF py311 THEN CharAt(s, p + 2) = ":" ELSE TRUE,
                        Append(vals, Digits(s, p, 2)), CharAt(s, p + 2), py311)

\* the time of day h:m:sec.us when there is such a time
TimeOfDay(h, m, sec, us) ==
    IF h < 24 /\ m < 60 /\ sec < 60
    THEN [NotParsed EXCEPT !.ok = TRUE, !.secs = h * 3600 + m * 60 + sec,
                           !.microsecond = us]
    ELSE NotParsed

\* the time zone sign (h:m:sec.us) from UTC: a whole day or more is refused,
\* the minutes and seconds are not checked, and an offset of no seconds is
\* UTC whatever its microseconds
UtcOffset(sign, h, m, sec, us) ==
    IF h * 3600 + m * 60 + sec = 0
    THEN [NotParsed EXCEPT !.ok = TRUE, !.aware = TRUE]
    ELSE IF h * 3600 + m * 60 + sec >= 86400 THEN NotParsed
    ELSE [NotParsed EXCEPT !.ok = TRUE, !.aware = TRUE,
                           !.offset = sign * (h * 3600 + m * 60 + sec),
                           !.offset_microsecond = sign * us]

OffsetOf(sign, clock) ==
    IF clock.rv # 0 THEN NotParsed
    ELSE UtcOffset(sign, clock.vals[1], clock.vals[2], clock.vals[3], clock.us)

\* the time zone of an ISO string, from its first character on: "" (none),
\* "Z" (Python 3.11 and later), or a sign and a time; before Python 3.11 only
\* "+HH:MM", "+HH:MM:SS" and "+HH:MM:SS.ffffff"
ParseOffset(s, py311) ==
    IF s = "" THEN [NotParsed EXCEPT !.ok = TRUE]
    ELSE IF CharAt(s, 1) = "Z"
    THEN (IF py311 /\ Len(s) = 1 THEN [NotParsed EXCEPT !.ok = TRUE, !.aware = TRUE]
          ELSE NotParsed)
    ELSE IF CharAt(s, 1) \notin { "+", "-" } THEN NotParsed
    ELSE IF ~py311 /\ Len(s) \notin { 6, 9, 16 } THEN NotParsed
    ELSE OffsetOf(IF CharAt(s, 1) = "-" THEN 0 - 1 ELSE 1,
                  parse_hh_mm_ss_ff(s, 2, Len(s) + 1, 0, TRUE, << >>, py311))

\* the characters that start the time zone
TzMarks(py311) == IF py311 THEN { "Z", "+", "-" } ELSE { "+", "-" }

\* the position of the first of them from p on, p_end where there is none
RECURSIVE TzPosition(_, _, _, _)
TzPosition(s, p, p_end, py311) ==
    IF p >= p_end THEN p_end
    ELSE IF CharAt(s, p) \in TzMarks(py311) THEN p
    ELSE TzPosition(s, p + 1, p_end, py311)

\* a time of day in its time zone
Zoned(time, off) ==
    IF time.ok /\ off.ok
    THEN [time EXCEPT !.aware = off.aware, !.offset = off.offset,
                      !.offset_microsecond = off.offset_microsecond]
    ELSE NotParsed

\* the time read up to the time zone at tz: a character left over is an
\* error only where no time zone follows
TimeBefore(s, tz, clock, py311) ==
    IF clock.rv < 0 \/ (tz > Len(s) /\ clock.rv = 1) THEN NotParsed
    ELSE Zoned(TimeOfDay(clock.vals[1], clock.vals[2], clock.vals[3], clock.us),
               ParseOffset(Slice(s, tz, Len(s)), py311))

TimeWithZoneAt(s, tz, py311) ==
    TimeBefore(s, tz, parse_hh_mm_ss_ff(s, 1, tz, 0, TRUE, << >>, py311), py311)

\* the time part of an ISO string, its time zone included
ParseTime(s, py311) == TimeWithZoneAt(s, TzPosition(s, 1, Len(s) + 1, py311), py311)

\* a datetime of its date and its time
DateTime(date, time) ==
    IF date.ok /\ time.ok THEN [time EXCEPT !.days = date.days] ELSE NotParsed

\* the string split after the date part of length location: the character
\* after the date is the separator, whatever it is
SplitAt(s, location, py311) ==
    IF location < 0 THEN NotParsed
    ELSE IF Len(s) <= location THEN ParseDate(s, py311)
    ELSE DateTime(ParseDate(Slice(s, 1, location), py311),
                  ParseTime(Slice(s, location + 2, Len(s)), py311))

\* datetime.fromisoformat; ok is FALSE where it raises
fromisoformat(s, py311) ==
    IF s \in { None, Absent } THEN NotParsed
    ELSE IF ~py311 THEN SplitAt(s, 10, py311)
    ELSE IF Len(s) < 7 THEN NotParsed
    ELSE SplitAt(s, SeparatorLocation(s), py311)

\* a number of seconds, as whole days and the seconds of the last day
Seconds(days, secs) == [days |-> days, secs |-> secs]

\* the seconds seconds + n, n being less than four days either way
Shifted(seconds, n) ==
    Seconds(seconds.days + (seconds.secs + n + 4 * 86400) \div 86400 - 4,
            (seconds.secs + n + 4 * 86400) % 86400)

RECURSIVE TwoTo(_)
TwoTo(n) == IF n = 0 THEN 1 ELSE 2 * TwoTo(n - 1)

\* seconds >= 2^e
AtLeastTwoTo(seconds, e) == seconds.days * 675 + seconds.secs \div 128 >= TwoTo(e - 7)

\* the e of 33..37 with 2^e <= seconds < 2^(e+1), 32 for all seconds below 2^33
Exponent(seconds) == 32 + Cardinality({ e \in 33..37 : AtLeastTwoTo(seconds, e) })

\* the microseconds within which a float of exponent e cannot tell a number
\* of seconds from the next whole one
Ulp(e) == 1000000 \div TwoTo(53 - e)

\* -seconds - 1
Mirrored(seconds) == Seconds(0 - seconds.days - 1, 86399 - seconds.secs)

\* whether int() of the float of seconds and us microseconds is the second
\* after seconds: the float of a late instant may round up to it, and int()
\* truncates an instant before 1970 towards it
RoundsUp(seconds, us) ==
    IF us = 0 THEN FALSE
    ELSE IF seconds.days >= 0 THEN 1000000 - us <= Ulp(Exponent(seconds))
    ELSE us > Ulp(Exponent(Mirrored(seconds)))

\* whether instant a is before instant b
Before(a, b) == a.days < b.days \/ (a.days = b.days /\ a.secs < b.secs)

\* the seconds east of UTC of local time at instant seconds: the offset of
\* the last change at or before it
OffsetAt(zone, seconds) ==
    IF \A i \in 1..Len(zone.changes) : Before(seconds, zone.changes[i].at)
    THEN zone.offset
    ELSE zone.changes[Cardinality({ i \in 1..Len(zone.changes) :
                                      ~Before(seconds, zone.changes[i].at) })].offset

\* local(u): the local time at instant seconds, as the seconds of a clock
\* that reads it; ok is FALSE where its year is not in 1..9999
local(zone, seconds) ==
    [ok |-> Shifted(seconds, OffsetAt(zone, seconds)).days \in MinDay..MaxDay,
     at |-> Shifted(seconds, OffsetAt(zone, seconds))]

Raised == [ok |-> FALSE, at |-> Seconds(0, 0)]
Found(seconds) == [ok |-> TRUE, at |-> seconds]

\* the second guess of local_to_seconds: the offset b a day before the first
\* guess u1 where u1 reads t, and at u1 where it does not
SecondGuess(zone, t, a, u1, b) ==
    IF local(zone, u1).at = t /\ a = b THEN Found(u1)
    ELSE IF ~local(zone, Shifted(t, 0 - b)).ok THEN Raised
    ELSE IF local(zone, Shifted(t, 0 - b)).at = t THEN Found(Shifted(t, 0 - b))
    ELSE IF local(zone, u1).at = t THEN Found(u1)
    ELSE IF Before(u1, Shifted(t, 0 - b)) THEN Found(Shifted(t, 0 - b))
    ELSE Found(u1)

\* the first guess u1 of local_to_seconds, the offset at t read as an instant
\* being a
FirstGuess(zone, t, a, u1) ==
    IF ~local(zone, u1).ok THEN Raised
    ELSE IF local(zone, u1).at # t
    THEN SecondGuess(zone, t, a, u1, OffsetAt(zone, u1))
    ELSE IF ~local(zone, Shifted(u1, 0 - 86400)).ok THEN Raised
    ELSE SecondGuess(zone, t, a, u1, OffsetAt(zone, Shifted(u1, 0 - 86400)))

\* local_to_seconds with fold 0: the instant at which the local clock reads
\* t, the earlier one where it reads t twice, and where it never reads t the
\* instant a clock that had not changed would read it; ok is FALSE where a
\* local time it probes is outside of the years 1..9999
local_to_seconds(zone, t) ==
    IF ~local(zone, t).ok THEN Raised
    ELSE FirstGuess(zone, t, OffsetAt(zone, t), Shifted(t, 0 - OffsetAt(zone, t)))

\* the instant of a datetime, in seconds and microseconds from the epoch: a
\* naive datetime is taken in the local time of zone
InstantMicrosecond(dt) ==
    dt.microsecond - (IF dt.aware THEN dt.offset_microsecond ELSE 0)

InstantSeconds(dt, zone) ==
    Shifted(IF dt.aware THEN Shifted(Seconds(dt.days, dt.secs), 0 - dt.offset)
            ELSE local_to_seconds(zone, Seconds(dt.days, dt.secs)).at,
            (InstantMicrosecond(dt) + 1000000) \div 1000000 - 1)

\* int(dt.timestamp())
TimestampSeconds(dt, zone) ==
    Shifted(InstantSeconds(dt, zone),
            IF RoundsUp(InstantSeconds(dt, zone),
                        (InstantMicrosecond(dt) + 1000000) % 1000000)
            THEN 1 ELSE 0)

\* the seconds the local clock was set back between a day before instant
\* seconds and it, negative
SetBack(zone, seconds) ==
    OffsetAt(zone, seconds) - OffsetAt(zone, Shifted(seconds, 0 - 86400))

\* datetime.fromtimestamp(seconds): ok is FALSE where it raises, which
\* it does where the local time, or a local time it probes to tell the second
\* reading of a clock set back from the first, is outside of the years 1..9999
fromtimestamp(seconds, zone) ==
    IF \/ ~local(zone, seconds).ok
       \/ ~local(zone, Shifted(seconds, 0 - 86400)).ok
       \/ /\ SetBack(zone, seconds) < 0
          /\ ~local(zone, Shifted(seconds, SetBack(zone, seconds))).ok
    THEN NotParsed
    ELSE [NotParsed EXCEPT !.ok = TRUE, !.days = local(zone, seconds).at.days,
                           !.secs = local(zone, seconds).at.secs]

\* a JSON value of a date field: a string (or null, or no key), a
\* {"_seconds", "_nanoseconds"} object, a {"seconds", "nanoseconds"} object,
\* or an object that has entries and neither key
StringValue(str) ==
    [type |-> "str", str |-> str, _seconds |-> Seconds(0, 0), _nanoseconds |-> 0]
TimestampValue(seconds, nanoseconds) ==
    [type |-> "timestamp", str |-> "", _seconds |-> seconds, _nanoseconds |-> nanoseconds]
SecondsValue(seconds, nanoseconds) ==
    [type |-> "seconds", str |-> "", _seconds |-> seconds, _nanoseconds |-> nanoseconds]
ObjectValue ==
    [type |-> "object", str |-> "", _seconds |-> Seconds(0, 0), _nanoseconds |-> 0]

\* None where a timestamp object is expected
NoTimestamp ==
    [type |-> "none", str |-> "", _seconds |-> Seconds(0, 0), _nanoseconds |-> 0]

\* the text string_to_timestamp_dict parses: "Z" is replaced, a date without
\* "T" is midnight UTC
IsoText(date_str) ==
    IF Contains(date_str, "T")
    THEN Replace(date_str, "Z", "+00:00")
    ELSE date_str \o "T00:00:00+00:00"

TimestampOf(dt, zone) ==
    IF ~dt.ok THEN NoTimestamp
    ELSE IF ~dt.aware /\ ~local_to_seconds(zone, Seconds(dt.days, dt.secs)).ok
    THEN NoTimestamp
    ELSE TimestampValue(TimestampSeconds(dt, zone), dt.microsecond * 1000)

\* string_to_timestamp_dict: any exception gives None, as that of a value
\* that is no string
string_to_timestamp_dict(date_str, zone, py311) ==
    IF date_str.type # "str" \/ date_str.str = None THEN NoTimestamp
    ELSE TimestampOf(fromisoformat(IsoText(date_str.str), py311), zone)

\* sys.exit(code)
RetExit(code) == [kind |-> "exit", n |-> code, b |-> FALSE, counts |-> NoCounts]

Backup(f) == << "backup", f >>

\* bool(x) of a JSON value
TruthyValue(x) == x.type # "str" \/ Truthy(x.str)

\* the record migrate_invoice_dates builds of the converted issueDate and
\* dueDate: None (ok FALSE) when issueDate is there and was not converted; a
\* dueDate that was not converted is kept as it is
MigratedDates(rec, issue, due) ==
    [ok |-> rec.issueDate = StringValue(Absent) \/ issue.type = "timestamp",
     rec |-> [id |-> rec.id,
              date |-> IF rec.issueDate # StringValue(Absent) /\ issue.type = "timestamp"
                       THEN issue ELSE rec.issueDate,
              dueDate |-> IF /\ rec.dueDate # StringValue(Absent)
                             /\ TruthyValue(rec.dueDate)
                             /\ due.type = "timestamp"
                          THEN due ELSE rec.dueDate]]

migrate_invoice_dates(invoice, zone, py311) ==
    MigratedDates(invoice,
                  string_to_timestamp_dict(invoice.issueDate, zone, py311),
                  string_to_timestamp_dict(invoice.dueDate, zone, py311))

\* migrate_payment_dates: as for invoices, with the one field date
migrate_payment_dates(payment, zone, py311) ==
    MigratedDates(payment,
                  string_to_timestamp_dict(payment.issueDate, zone, py311),
                  NoTimestamp)

MigrateRecord(f, rec, zone, py311) ==
    IF f = "invoices" THEN migrate_invoice_dates(rec, zone, py311)
    ELSE migrate_payment_dates(rec, zone, py311)

\* migrated_invoices.append(migrated_invoice) when it is not None
Appended(m) == IF m.ok THEN << m.rec >> ELSE << >>

\* the loop of main: the records that were migrated, in order
RECURSIVE MigratedFrom(_, _, _, _, _)
MigratedFrom(f, recs, zone, py311, i) ==
    IF i > Len(recs) THEN << >>
    ELSE Appended(MigrateRecord(f, recs[i], zone, py311))
         \o MigratedFrom(f, recs, zone, py311, i + 1)

\* the sampled pairs whose migrated date is checked: the first ten, where
\* the original and the migrated record both have the key
Sampled(original_data, migrated_data) ==
    { i \in 1..Len(original_data) :
        /\ i <= 10 /\ i <= Len(migrated_data)
        /\ original_data[i].issueDate # StringValue(Absent)
        /\ migrated_data[i].date # StringValue(Absent) }

\* one sampled pair: the migrated date is a timestamp and, read back in local
\* time, falls on the original date; fromtimestamp and fromisoformat may raise
DateCheck(migrated_date, original_date, zone) ==
    IF migrated_date.type # "timestamp" THEN "error"
    ELSE IF ~fromtimestamp(migrated_date._seconds, zone).ok THEN "raised"
    ELSE IF ~original_date.ok THEN "raised"
    ELSE IF fromtimestamp(migrated_date._seconds, zone).days # original_date.days
    THEN "error"
    ELSE "ok"

\* datetime.fromisoformat(original["issueDate"]), which raises on a value
\* that is no string
OriginalDate(date, py311) ==
    IF date.type # "str" THEN NotParsed ELSE fromisoformat(date.str, py311)

\* the checks of the sampled pairs
DateChecks(original_data, migrated_data, zone, py311) ==
    { DateCheck(migrated_data[i].date,
                OriginalDate(original_data[i].issueDate, py311), zone)
        : i \in Sampled(original_data, migrated_data) }

\* "raised" when a check raised, "failed" when validation_errors > 0
SampleOutcome(checks) ==
    IF "raised" \in checks THEN "raised"
    ELSE IF "error" \in checks THEN "failed"
    ELSE "passed"

\* validate_migration with the count check left out
validate_migration_sample_only(original_data, migrated_data, zone, py311) ==
    SampleOutcome(DateChecks(original_data, migrated_data, zone, py311))

\* validate_migration: the counts, then the first ten pairs; fromisoformat of
\* the original raises where it cannot be parsed
validate_migration(original_data, migrated_data, zone, py311) ==
    IF Len(original_data) # Len(migrated_data) THEN "failed"
    ELSE SampleOutcome(DateChecks(original_data, migrated_data, zone, py311))

NotWritten == [written |-> FALSE, recs |-> << >>]

\* main from the backup on, migrated being the records the loop migrated
MainAfterBackup(s, f, migrated, zone, py311) ==
    IF s.status[f] = "malformed"
    THEN [files |-> s, ret |-> RetExit(1), io |-> << Backup(f), LoadFailed(f) >>]
    ELSE IF \/ s.shape[f] = "dict"
            \/ 10 * (Len(s[f]) - Len(migrated)) > Len(s[f])
            \/ validate_migration(s[f], migrated, zone, py311) # "passed"
    THEN [files |-> s, ret |-> RetExit(1), io |-> << Backup(f), Load(f) >>]
    ELSE [files |-> [s EXCEPT !.migrated[f] = [written |-> TRUE, recs |-> migrated]],
          ret |-> RetNone,
          io |-> << Backup(f), Load(f), Write(f \o "_migrated") >>]

\* main of the migration script of file f (invoices or payments)
migrate_main(s, f, zone, py311) ==
    IF s.status[f] = "missing"
    THEN [files |-> s, ret |-> RetExit(1), io |-> << >>]
    ELSE MainAfterBackup([s EXCEPT !.backups = @ \cup { f }], f,
                         MigratedFrom(f, s[f], zone, py311, 1), zone, py311)

\* the scripts run on the machine, in its time zone and with its Python
MigrateInvoicesTimestamps ==
    RanTo("migrate_invoices_timestamps",
          migrate_main(files, "invoices", machine.zone, machine.py311))

MigratePaymentsTimestamps ==
    RanTo("migrate_payments_timestamps",
          migrate_main(files, "payments", machine.zone, machine.py311))

(***************************************************************************)
(* convert_to_iso_strings.py                                               *)
(***************************************************************************)

\* the civil date of a day (days from 1970-01-01)
CivilFromDays(days) ==
    LET z == days + 719468
        era == z \div 146097
        doe == z - era * 146097
        yoe == (doe - doe \div 1460 + doe \div 36524 - doe \div 146096) \div 365
        doy == doe - (365 * yoe + yoe \div 4 - yoe \div 100)
        mp == (5 * doy + 2) \div 153
        month == IF mp < 10 THEN mp + 3 ELSE mp - 9
    IN  [year |-> yoe + era * 400 + (IF month <= 2 THEN 1 ELSE 0),
         month |-> month,
         day |-> doy - (153 * mp + 2) \div 5 + 1]

\* "%02d" % n and "%04d" % n
DigitOf(n) == Slice(DigitChars, n + 1, n + 1)
TwoDigits(n) == DigitOf(n \div 10) \o DigitOf(n % 10)
FourDigits(n) == TwoDigits(n \div 100) \o TwoDigits(n % 100)

\* dt.isoformat() of a naive datetime of whole seconds
isoformat(dt) ==
    FourDigits(CivilFromDays(dt.days).year) \o "-"
    \o TwoDigits(CivilFromDays(dt.days).month) \o "-"
    \o TwoDigits(CivilFromDays(dt.days).day) \o "T"
    \o TwoDigits(dt.secs \div 3600) \o ":"
    \o TwoDigits((dt.secs \div 60) % 60) \o ":"
    \o TwoDigits(dt.secs % 60)

\* timestamp_to_iso_string: the local time of the seconds of a timestamp
\* object with "Z" after it; a value that is no such object, and one whose
\* conversion raises, is returned as it is
timestamp_to_iso_string(timestamp_obj, zone) ==
    IF timestamp_obj.type \notin { "timestamp", "seconds" } THEN timestamp_obj
    ELSE IF ~fromtimestamp(timestamp_obj._seconds, zone).ok THEN timestamp_obj
    ELSE StringValue(isoformat(fromtimestamp(timestamp_obj._seconds, zone)) \o "Z")

\* convert_object of a record: the values of its date keys are converted (of
\* a payment, issueDate is the key "date")
ConvertedRecord(rec, zone) ==
    IF "issueDate" \in DOMAIN rec
    THEN [rec EXCEPT !.issueDate = timestamp_to_iso_string(@, zone),
                     !.dueDate = timestamp_to_iso_string(@, zone)]
    ELSE rec

\* convert_object of the records of a file, a list or an object keyed by id
convert_object(obj, zone) == [i \in 1..Len(obj) |-> ConvertedRecord(obj[i], zone)]

\* shutil.copy2(file_path, backup_path): the store holds the copy, where it
\* keeps the names of the backups
WithBackup(s, backup_path) ==
    IF "backups" \in DOMAIN s THEN [s EXCEPT !.backups = @ \cup { backup_path }] ELSE s

\* convert_file after the run r so far: a file that is not there is left
\* out; json.load of a file that is not JSON raises after the backup
convert_file(r, file, zone) ==
    IF r.files.status[file] = "missing" THEN r
    ELSE IF r.files.status[file] # "ok"
    THEN [files |-> WithBackup(r.files, file \o ".backup_iso"),
          ret |-> RetRaise,
          io |-> r.io \o << Backup(file), LoadFailed(file) >>]
    ELSE [files |-> [WithBackup(r.files, file \o ".backup_iso")
                        EXCEPT ![file] = convert_object(@, zone)],
          ret |-> RetNone,
          io |-> r.io \o << Backup(file), Load(file), Write(file) >>]

\* the loop of main over the files from the i-th on, which an exception ends
RECURSIVE ConvertedFrom(_, _, _, _)
ConvertedFrom(r, order, zone, i) ==
    IF i > Len(order) \/ r.ret = RetRaise THEN r
    ELSE ConvertedFrom(convert_file(r, order[i], zone), order, zone, i + 1)

\* main of convert_to_iso_strings.py
convert_main(s, zone) ==
    ConvertedFrom([files |-> s, ret |-> RetNone, io |-> << >>],
                  << "products", "customers", "payments", "invoices" >>, zone, 1)

ConvertToIsoStrings == RanTo("convert_to_iso_strings", convert_main(files, machine.zone))

Next ==
    \/ VerifyIntegrity
    \/ RunCompleteFix
    \/ ApplyCustomerFixes
    \/ FinalCustomerFixMain
    \/ FixCustomerReferences
    \/ FixCustomerProductIds
    \/ ApplyManualCustomerMappings
    \/ CreateCustomerIdMapping
    \/ AnalyzeUnmappedCustomers
    \/ VerifyDataIntegrity
    \/ RemigrationBegin
    \/ RemigrationImport
    \/ RemigrationCall
    \/ RemigrationReturn
    \/ RemigrationExit
    \/ ConvertToIsoStrings

Spec == Init /\ [][Next]_vars

\* a time zone that keeps one offset of h hours and m minutes east of UTC
FixedZone(h, m) == Zone(h * 3600 + m * 60, << >>)

\* the instant of hour h UTC of a day
HourOf(year, month, day, h) == Seconds(DaysFromCivil(year, month, day), h * 3600)

\* a change of a zone: from the instant at on, its offset is h hours
Change(at, h) == [at |-> at, offset |-> h * 3600]

\* the zone of New York over 2024: -5:00, and -4:00 in summer
EasternZone ==
    Zone(0 - 5 * 3600, << Change(HourOf(2024, 3, 10, 7), 0 - 4),
                          Change(HourOf(2024, 11, 3, 6), 0 - 5) >>)

\* a zone whose clocks are set forward from 23:00 of 2024-10-01 to midnight,
\* so that no clock reads 23:30 of that day
ForwardZone == Zone(3600, << Change(HourOf(2024, 10, 1, 22), 2) >>)

\* a zone whose clocks are set back from midnight after 2024-10-01 to 23:00,
\* so that they read 23:30 of that day twice
BackZone == Zone(7200, << Change(HourOf(2024, 10, 1, 22), 1) >>)

\* a zone that leaves 2024-10-01 out, as Samoa left 2011-12-30 out: from
\* -10:00 at midnight to +14:00
DateLineZone == Zone(0 - 10 * 3600, << Change(HourOf(2024, 10, 1, 10), 14) >>)

\* the time zones of the machines: UTC, the zones furthest west and east
\* (-12:00 and +14:00), zones of whole hours (-5:00, +9:00), of half hours
\* (-3:30, +5:30) and of quarter hours (+5:45), and zones that change their
\* offset between the dates or at a date of a file
Zones ==
    { Utc, FixedZone(0 - 12, 0), FixedZone(0 - 5, 0), FixedZone(0 - 3, 0 - 30),
      FixedZone(5, 30), FixedZone(5, 45), FixedZone(9, 0), FixedZone(14, 0),
      EasternZone, ForwardZone, BackZone, DateLineZone }

\* the machines: Python 3.11 or later in every zone, and an older Python,
\* whose parser differs in the strings it accepts, in two of them
Machines ==
    { Machine(zone, TRUE) : zone \in Zones }
    \cup { Machine(zone, FALSE) : zone \in { Utc, EasternZone } }

MaxMigrated == 1

\* issueDate of an invoice, date of a payment
IssueDates ==
    { "2024-10-01", "2024-10-01T23:30:00", "2024-10-01T23:30:00Z",
      "2024-10-01T01:00:00+02:00", "2024-10-01T23:30:00.500", "20241001",
      "0001-01-01", "01/10/2024", None, Absent }

\* dueDate of an invoice
DueDates == { "", "2024-10-31", "soon" }

\* dates with a time and no offset, of winter and of summer
LocalDates == { "2024-01-15T00:30:00", "2024-01-15T23:30:00", "2024-10-01T23:30:00" }

\* <<issueDate, dueDate>> of an invoice
InvoiceDates ==
    { << d, Absent >> : d \in IssueDates } \cup { << "2024-10-01", d >> : d \in DueDates }

DatedRecs(ids, dates) ==
    [i \in 1..Len(dates) |-> [id |-> ids[i], issueDate |-> StringValue(dates[i][1]),
                              dueDate |-> StringValue(dates[i][2])]]

\* ten records, the k-th of which holds bad instead of a date
TenWith(ids, k, bad) ==
    [i \in 1..10 |-> [id |-> ids,
                      issueDate |-> StringValue(IF i = k THEN bad ELSE "2024-10-01"),
                      dueDate |-> StringValue(Absent)]]

\* date values as the scripts left them that wrote timestamp objects, one of
\* them on the first day of datetime
ObjectDates ==
    { TimestampValue(HourOf(2024, 10, 1, 0), 0), TimestampValue(HourOf(2024, 10, 1, 22), 500),
      TimestampValue(Seconds(MinDay, 0), 0), SecondsValue(HourOf(2024, 10, 1, 0), 0),
      ObjectValue }

\* one invoice and one payment of date issue, the invoice due at due
ObjectRecs(issue, due) ==
    [invoices |-> << [id |-> "inv_1", issueDate |-> issue, dueDate |-> due] >>,
     payments |-> << [id |-> "pay_1", issueDate |-> issue,
                      dueDate |-> StringValue(Absent)] >>]

\* the lists of up to n dates, the last of them of U and the ones before it
\* the plain date
EndingIn(U, n) ==
    { << >> } \cup { [i \in 1..k |-> IF i = k THEN d ELSE << "2024-10-01", Absent >>]
                      : k \in 1..n, d \in U }

MigrationStore(iv, pm, sh, st) ==
    [invoices |-> iv, payments |-> pm,
     shape |-> [invoices |-> sh, payments |-> sh],
     status |-> [products |-> "missing", customers |-> "missing",
                 invoices |-> st, payments |-> st],
     migrated |-> [invoices |-> NotWritten, payments |-> NotWritten],
     backups |-> {}]

MigrationStores ==
    { MigrationStore(DatedRecs(InvoiceIds, dates), << >>, "list", "ok")
        : dates \in EndingIn(InvoiceDates, MaxMigrated) }
    \cup { MigrationStore(<< >>, DatedRecs(PaymentIds, dates), "list", "ok")
             : dates \in EndingIn(IssueDates \X { Absent }, MaxMigrated) }
    \cup { MigrationStore(DatedRecs(InvoiceIds, << << d1, Absent >>, << d2, Absent >> >>),
                           DatedRecs(PaymentIds, << << d1, Absent >>, << d2, Absent >> >>),
                           "list", "ok")
             : d1 \in LocalDates, d2 \in LocalDates }
    \cup { MigrationStore(ObjectRecs(issue, due).invoices, ObjectRecs(issue, due).payments,
                           "list", "ok")
             : issue \in ObjectDates,
               due \in { StringValue(Absent), TimestampValue(HourOf(2024, 10, 1, 0), 0) } }
    \cup { MigrationStore(ObjectRecs(issue, issue).invoices, ObjectRecs(issue, issue).payments,
                           "dict", "ok")
             : issue \in { TimestampValue(HourOf(2024, 10, 1, 0), 0) } }
    \cup { MigrationStore(TenWith("inv_1", k, bad), TenWith("pay_1", k, bad), "list", "ok")
             : k \in { 0, 1, 10 }, bad \in { "01/10/2024", None } }
    \cup { MigrationStore(DatedRecs(InvoiceIds, dates), DatedRecs(PaymentIds, dates), sh, st)
             : dates \in { << >>, << << "2024-10-01", Absent >> >> },
               sh \in { "list", "dict" }, st \in { "ok", "missing", "malformed" } }

MigrationInit ==
    /\ files \in MigrationStores
    /\ machine \in Machines
    /\ prev = files
    /\ lastOp = "none"
    /\ ret = RetNone
    /\ lastMapping = EmptyMapping
    /\ io = << >>
    /\ rpc = "idle"
    /\ calls = << >>

MigrationNext ==
    \/ MigrateInvoicesTimestamps
    \/ MigratePaymentsTimestamps
    \/ ConvertToIsoStrings

MigrationSpec == MigrationInit /\ [][MigrationNext]_vars

(***************************************************************************)
(* Properties                                                              *)
(***************************************************************************)

\* a script returned (it did not raise)
Returned == ret.kind # "exception"

\* the scripts that rewrite references
ProductFixers == { "run_complete_fix", "fix_customer_product_ids" }
CustomerFixers ==
    { "apply_customer_fixes", "fix_customer_references", "apply_manual_customer_mappings" }

\* the six relationship counts of a verifier run over s are all zero
NoViolations(s) ==
    LET r == verify_integrity(s)
    IN  /\ r.customer_product = 0
        /\ r.invoice_customer = 0
        /\ r.invoice_product = 0
        /\ r.payment_customer = 0
        /\ r.payment_invoice = 0
        /\ r.parent = 0

\* C1: after a fix cycle that loaded, built its mapping, applied it and saved
\* (run_complete_fix returned True, apply_customer_fixes returned a positive
\* count), the verifier reports zero violations for each of the six
\* relationship kinds.
C1_FixCycleLeavesNoViolations ==
    (lastOp \in { "run_complete_fix", "apply_customer_fixes" } /\ Returned /\ ret.b)
        => NoViolations(files)

\* The occurrences of a reference field that are non-empty and absent from
\* the id set of the target collection, per relationship kind.
DanglingCustomerProduct(s) ==
    UNION { { <<c, "item", k>> : k \in { k \in 1..Len(s.customers[c].customProductPricing.items) :
                /\ Truthy(s.customers[c].customProductPricing.items[k].productId)
                /\ s.customers[c].customProductPricing.items[k].productId
                       \notin IdSet(s.products) } }
            \cup
            { <<c, "key", k>> : k \in { k \in 1..Len(s.customers[c].customProductPricing.keys) :
                /\ Truthy(s.customers[c].customProductPricing.keys[k])
                /\ s.customers[c].customProductPricing.keys[k] \notin IdSet(s.products) } }
            : c \in 1..Len(s.customers) }

DanglingCustomerRefs(recs, s) ==
    { i \in 1..Len(recs) :
        Truthy(recs[i].customerId) /\ recs[i].customerId \notin IdSet(s.customers) }

DanglingInvoiceProduct(s) ==
    { ij \in UNION { { <<i, j>> : j \in 1..Len(s.invoices[i].lineItems) }
                     : i \in 1..Len(s.invoices) } :
        /\ Truthy(s.invoices[ij[1]].lineItems[ij[2]].productId)
        /\ s.invoices[ij[1]].lineItems[ij[2]].productId \notin IdSet(s.products) }

DanglingPaymentInvoice(s) ==
    { pj \in UNION { { <<p, j>> : j \in 1..Len(s.payments[p].allocatedInvoices) }
                     : p \in 1..Len(s.payments) } :
        /\ Truthy(s.payments[pj[1]].allocatedInvoices[pj[2]])
        /\ s.payments[pj[1]].allocatedInvoices[pj[2]] \notin IdSet(s.invoices) }

DanglingParent(s) ==
    { c \in 1..Len(s.customers) :
        /\ Truthy(s.customers[c].parentCompanyId)
        /\ s.customers[c].parentCompanyId \notin IdSet(s.customers) }

\* C2: the verifier reports one violation for every occurrence of a reference
\* field that is non-empty and absent from the id set of its target, for each
\* of the six relationship kinds and for nothing else; its total is the sum of
\* the six counts and it returns True exactly when the total is zero.
C2_VerifierCountsDanglingReferences ==
    (lastOp = "verify_integrity" /\ Returned) =>
        /\ ret.counts.customer_product = Cardinality(DanglingCustomerProduct(files))
        /\ ret.counts.invoice_customer = Cardinality(DanglingCustomerRefs(files.invoices, files))
        /\ ret.counts.invoice_product = Cardinality(DanglingInvoiceProduct(files))
        /\ ret.counts.payment_customer = Cardinality(DanglingCustomerRefs(files.payments, files))
        /\ ret.counts.payment_invoice = Cardinality(DanglingPaymentInvoice(files))
        /\ ret.counts.parent = Cardinality(DanglingParent(files))
        /\ ret.n = ret.counts.customer_product + ret.counts.invoice_customer
                   + ret.counts.invoice_product + ret.counts.payment_customer
                   + ret.counts.payment_invoice + ret.counts.parent
        /\ ret.b <=> (ret.n = 0)

\* the scripts and methods that build a customer mapping
CustomerMappingBuilders ==
    { "apply_customer_fixes", "fix_customer_references", "create_customer_id_mapping" }

\* C3: every mapping old -> new that a mapping builder (the three customer
\* mapping builders, the manual tables) accepts with a non-null target has
\* new among the valid customer identifiers at the time it is accepted.
C3_MappingTargetsAreValid ==
    (lastOp \in CustomerMappingBuilders \cup { "apply_manual_customer_mappings" } /\ Returned)
        => \A old \in DOMAIN lastMapping :
              lastMapping[old] # None => lastMapping[old] \in IdSet(prev.customers)

\* C4: a second run of a fixer over the store its first run left changes no
\* field and reports zero fixes, for the product fixers and the customer fixers.
C4_SecondRunChangesNothing ==
    [][(/\ lastOp \in ProductFixers \cup CustomerFixers
        /\ Returned
        /\ lastOp' = lastOp
        /\ ret'.kind # "exception")
            => (files' = files /\ ret'.n = 0)]_vars

\* the mapping the product fixer that ran last applies
ProductMappingOf(op) ==
    IF op = "run_complete_fix" THEN create_product_id_mapping ELSE PRODUCT_ID_MAPPINGS

\* C5: for a pricing record whose productId is an old product id with a new
\* id in the product fixer's mapping, after the fixer ran the record's
\* productId is the new id, its id and every nested price id have every
\* occurrence of the old id replaced by the new id, and the verifier reports
\* no customer->product violation for that customer.
C5_CascadingSubstringFix ==
    (lastOp \in ProductFixers /\ Returned) =>
        \A c \in 1..Len(prev.customers) :
            \A k \in 1..Len(prev.customers[c].customProductPricing.items) :
                LET before == prev.customers[c].customProductPricing.items[k]
                    old == before.productId
                    mapping == ProductMappingOf(lastOp)
                IN  HasTarget(mapping, old) =>
                        LET new == mapping[old]
                            after == files.customers[c].customProductPricing.items[k]
                        IN  /\ after.productId = new
                            /\ after.id = Replace(before.id, old, new)
                            /\ Len(after.prices) = Len(before.prices)
                            /\ \A j \in 1..Len(before.prices) :
                                   after.prices[j] = Replace(before.prices[j], old, new)
                            /\ \A e \in CustomerProductErrors(files) : e[1] # c

\* the fixer rewrote "a_outray" with prices "a_outray_1", "a_outray_outray_2"
C5_Witness ==
    /\ lastOp = "run_complete_fix"
    /\ ret.b
    /\ \E c \in 1..Len(prev.customers) :
          \E k \in 1..Len(prev.customers[c].customProductPricing.items) :
              /\ prev.customers[c].customProductPricing.items[k].productId = "outray"
              /\ prev.customers[c].customProductPricing.items[k].id = "a_outray"
              /\ files.customers[c].customProductPricing.items[k].id = "a_prod_outray"
              /\ files.customers[c].customProductPricing.items[k].prices
                     = << "a_prod_outray_1", "a_prod_outray_prod_outray_2" >>

\* the invalid customer references of the invoices a builder was given
InvalidInvoiceRefs(s) ==
    { s.invoices[i].customerId : i \in DanglingCustomerRefs(s.invoices, s) }

\* x of a reference "cust_" + x
AfterPrefix(ref) == Slice(ref, 6, Len(ref))

\* C6: a mapping builder maps every invalid reference "cust_" + x with x a
\* valid customer id to x, whatever other ids are valid.
C6_PrefixStrip ==
    (lastOp \in CustomerMappingBuilders /\ Returned) =>
        \A ref \in InvalidInvoiceRefs(prev) :
            (StartsWith(ref, "cust_") /\ AfterPrefix(ref) \in IdSet(prev.customers))
                => Get(lastMapping, ref) = AfterPrefix(ref)

\* C7: a mapping builder maps every invalid reference "cust_" + a + "__" + b,
\* with a__b not a valid customer id and b a valid one, to the last segment b.
C7_CompoundSplit ==
    (lastOp \in CustomerMappingBuilders /\ Returned) =>
        \A ref \in InvalidInvoiceRefs(prev) :
            (/\ StartsWith(ref, "cust_")
             /\ Contains(AfterPrefix(ref), "__")
             /\ AfterPrefix(ref) \notin IdSet(prev.customers)
             /\ Last(Split(AfterPrefix(ref), "__")) \in IdSet(prev.customers))
                => Get(lastMapping, ref) = Last(Split(AfterPrefix(ref), "__"))

\* the references of a store, each with the place that holds it
ReferencesHeld(s) ==
    { << "invoice", i, s.invoices[i].customerId >> : i \in 1..Len(s.invoices) }
    \cup { << "payment", i, s.payments[i].customerId >> : i \in 1..Len(s.payments) }
    \cup UNION { { << "lineItem", i, j, s.invoices[i].lineItems[j].productId >>
                    : j \in 1..Len(s.invoices[i].lineItems) } : i \in 1..Len(s.invoices) }
    \cup UNION { { << "pricing", c, k, s.customers[c].customProductPricing.items[k].productId >>
                    : k \in 1..Len(s.customers[c].customProductPricing.items) }
                 : c \in 1..Len(s.customers) }

\* C8: the reference "v" is never given a target, whatever ids are valid, and
\* a fixer leaves every record that holds "v" holding "v".
C8_SingleCharacterStaysUnmapped ==
    (lastOp \in ProductFixers \cup CustomerFixers \cup CustomerMappingBuilders /\ Returned) =>
        /\ Get(lastMapping, "v") = None
        /\ \A h \in ReferencesHeld(prev) : h[Len(h)] = "v" => h \in ReferencesHeld(files)

\* the FirebaseAdmin calls of the upload step
UploadCalls ==
    { "clearCollection", "migrateProducts", "migrateCustomers",
      "migrateInvoices", "migratePayments" }

\* C9: no call of the upload step executes while the verifier's total
\* violation count for the store is not zero.
C9_UploadNeedsZeroViolations ==
    (\E i \in 1..Len(calls) : calls[i][1] \in UploadCalls)
        => verify_integrity(files).total = 0

\* the positions of calls at which a collection is cleared, or uploaded
ClearsIn(cs) == { i \in 1..Len(cs) : cs[i][1] = "clearCollection" }
UploadsIn(cs) == { i \in 1..Len(cs) : cs[i][1] # "clearCollection" }

DependencyOrder ==
    << << "migrateProducts", "products" >>, << "migrateCustomers", "customers" >>,
       << "migrateInvoices", "invoices" >>, << "migratePayments", "payments" >> >>

\* C10 in a state: an upload comes after the clearing of all four
\* collections, the uploads are a prefix of products, customers, invoices,
\* payments, and the function returns True only with every step done.
ClearedThenUploadedInOrder ==
    /\ \A u \in UploadsIn(calls) :
          { calls[i][2] : i \in { i \in ClearsIn(calls) : i < u } }
              = { "products", "customers", "invoices", "payments" }
    /\ Cardinality(ClearsIn(calls)) <= 4
    /\ LET first == IF UploadsIn(calls) = {} THEN Len(calls) + 1
                    ELSE CHOOSE u \in UploadsIn(calls) : \A v \in UploadsIn(calls) : u <= v
       IN  /\ UploadsIn(calls) = first..Len(calls)
           /\ Len(calls) - first + 1 <= Len(DependencyOrder)
           /\ \A u \in UploadsIn(calls) : calls[u] = DependencyOrder[u - first + 1]
    /\ (rpc = "returned" /\ ret.b) => Cardinality(UploadsIn(calls)) = 4
    /\ (rpc = "returned" /\ Cardinality(UploadsIn(calls)) < 4) => ret = RetBool(FALSE, 0)

\* C10: complete_firebase_remigration clears all four collections before it
\* uploads any, uploads products, customers, invoices, payments in that
\* order, and a failing step stops the later steps and makes it return False.
C10_ClearThenUploadInDependencyOrder ==
    /\ []ClearedThenUploadedInOrder
    /\ [][(rpc = "run" /\ rpc' = "returned" /\ Len(calls) < 8)
              => (calls' = calls /\ ret' = RetBool(FALSE, 0))]_vars
    /\ [][rpc = "returned" => (calls' = calls \/ calls' = << >>)]_vars

\* the upload of the invoices failed: products and customers are uploaded,
\* nothing after them, and the function returned False
C10_Witness ==
    /\ rpc = "returned"
    /\ ~ret.b
    /\ Len(calls) = 6
    /\ calls[5] = << "migrateProducts", "products" >>
    /\ calls[6] = << "migrateCustomers", "customers" >>

(***************************************************************************)
(* Loading, backing up and saving                                          *)
(***************************************************************************)

\* the positions of io holding the operation op
OpsAt(op) == { i \in 1..Len(io) : io[i][1] = op }

\* C11: when a file a fix script reads is missing or is not JSON, the run
\* ends with no file written and the files as they were.
C11_LoadFailureWritesNothing ==
    OpsAt("load_failed") # {} => (OpsAt("write") = {} /\ files = prev)

\* C12: every write of a collection file is preceded, in the same run, by a
\* backup copy of that file.
C12_BackupBeforeOverwrite ==
    \A i \in OpsAt("write") :
        \E j \in 1..(i - 1) : io[j] = << "backup", io[i][2] >>

\* the collections a run of run_complete_fix saved although no product fix
\* applied to their records
SavedUnmutated ==
    { f \in { "customers", "invoices", "payments", "quotes" } :
        /\ Write(f) \in Range(io)
        /\ CASE f = "customers" -> PricingFixes(prev.customers, create_product_id_mapping) = 0
             [] f = "invoices" -> LineItemFixes(prev.invoices, create_product_id_mapping) = 0
             [] f = "quotes" -> LineItemFixes(prev.quotes.recs, create_product_id_mapping) = 0
             [] OTHER -> TRUE }

\* C13: a collection that run_complete_fix loads and saves without mutating
\* it keeps its records, their order and its list-or-keyed shape.
C13_RoundTripKeepsShapeAndOrder ==
    lastOp = "run_complete_fix" =>
        \A f \in SavedUnmutated : files[f] = prev[f] /\ files.shape[f] = prev.shape[f]

\* the files before the run, with the same records in the documented shapes
PrevInDefaultShape == [prev EXCEPT !.shape = DefaultShape]

\* C14: the verifier and the mapping builders give, on files that are lists
\* or keyed objects, the result they give on the same records in the
\* documented shapes.
C14_ShapeDoesNotMatter ==
    prev.status = AllOk =>
        /\ lastOp = "verify_integrity" => ret = VerifyOutcome(PrevInDefaultShape).ret
        /\ lastOp = "fix_customer_references" =>
                lastMapping = fix_customer_references(PrevInDefaultShape).mapping
        /\ lastOp = "create_customer_id_mapping" =>
                lastMapping = customer_id_mapping(PrevInDefaultShape).mapping

(***************************************************************************)
(* The strategies of the customer mapping builders                         *)
(***************************************************************************)

\* Strategy 4 of create_comprehensive_customer_mapping: the variations
ComprehensiveVariations(invalid_ref) ==
    { Replace(invalid_ref, "cust_", ""),
      Strip(Replace(Replace(invalid_ref, "cust_", ""), "_", " ")),
      IF Contains(invalid_ref, "_") THEN Last(Split(invalid_ref, "_")) ELSE invalid_ref }

\* Strategies 1 and 2 of create_comprehensive_customer_mapping find a target
StripOrSplitSucceeds(invalid_ref, actual_customer_ids) ==
    /\ StartsWith(invalid_ref, "cust_")
    /\ \/ Slice(invalid_ref, 6, Len(invalid_ref)) \in actual_customer_ids
       \/ /\ Contains(invalid_ref, "__")
          /\ Last(Split(invalid_ref, "__")) \in actual_customer_ids

\* C15: when prefix strip and compound split fail and a normalization
\* variant of the reference is a valid id, the comprehensive mapping maps the
\* reference to such a variant, never to a containment match.
C15_ExactVariantBeatsContainment ==
    lastOp = "apply_customer_fixes" =>
        \A r \in DOMAIN lastMapping :
            LET actual_customer_ids == IdSet(prev.customers)
                exact == ComprehensiveVariations(r) \cap actual_customer_ids
            IN  (exact # {} /\ ~StripOrSplitSucceeds(r, actual_customer_ids))
                    => lastMapping[r] \in exact

\* C16: a mapping builder maps every invalid reference "cust_" + a + "__" + b,
\* with neither a__b nor the last segment b a valid customer id and the first
\* segment a a valid one, to a.
C16_CompoundFallsBackToFirstSegment ==
    (lastOp \in CustomerMappingBuilders /\ Returned) =>
        \A ref \in InvalidInvoiceRefs(prev) :
            (/\ StartsWith(ref, "cust_")
             /\ Contains(AfterPrefix(ref), "__")
             /\ AfterPrefix(ref) \notin IdSet(prev.customers)
             /\ Last(Split(AfterPrefix(ref), "__")) \notin IdSet(prev.customers)
             /\ Split(AfterPrefix(ref), "__")[1] \in IdSet(prev.customers))
                => Get(lastMapping, ref) = Split(AfterPrefix(ref), "__")[1]

\* the runs that build or apply a mapping
MappingRuns ==
    CustomerMappingBuilders \cup ProductFixers \cup { "apply_manual_customer_mappings" }

\* C17: no mapping a builder produced maps an identifier to itself: every
\* non-null target differs from the identifier it replaces.
C17_NoIdentifierMapsToItself ==
    lastOp \in MappingRuns =>
        \A old \in DOMAIN lastMapping :
            lastMapping[old] # None => lastMapping[old] # old

\* create_customer_mapping was given a reference that is itself a valid
\* customer id, and mapped a prefixed reference
C17_Witness ==
    /\ lastOp = "fix_customer_references"
    /\ Returned
    /\ \E i \in 1..Len(prev.invoices) : prev.invoices[i].customerId \in KeySet(prev.customers)
    /\ \E old \in DOMAIN lastMapping : lastMapping[old] # None

(***************************************************************************)
(* Applying a mapping                                                      *)
(***************************************************************************)

\* the identifiers lastMapping gives a non-null target
MappedSources == { old \in DOMAIN lastMapping : lastMapping[old] # None }

\* the fields of a store that reference a customer
CustomerReferenceFields(s) ==
    { s.invoices[i].customerId : i \in 1..Len(s.invoices) }
    \cup { s.payments[i].customerId : i \in 1..Len(s.payments) }
    \cup { s.customers[c].parentCompanyId : c \in 1..Len(s.customers) }

\* the fields of a store that reference a product
ProductReferenceFields(s) ==
    UNION { { s.customers[c].customProductPricing.items[k].productId :
                k \in 1..Len(s.customers[c].customProductPricing.items) }
            : c \in 1..Len(s.customers) }
    \cup UNION { { s.invoices[i].lineItems[j].productId :
                     j \in 1..Len(s.invoices[i].lineItems) }
                 : i \in 1..Len(s.invoices) }

\* C18: after a fixer applied its mapping, no invoice customerId, payment
\* customerId or customer parentCompanyId equals a source of the customer
\* mapping, and no pricing productId or line-item productId equals a source
\* of the product mapping.
C18_NoHolderKeepsMappedSource ==
    /\ (lastOp \in CustomerFixers /\ Returned)
            => CustomerReferenceFields(files) \cap MappedSources = {}
    /\ (lastOp \in ProductFixers /\ Returned)
            => ProductReferenceFields(files) \cap MappedSources = {}

\* the fields of a store that hold a customer or an invoice identifier
CustomerScopedFields(s) ==
    [invoices |-> [i \in 1..Len(s.invoices) |->
                      << s.invoices[i].id, s.invoices[i].customerId >>],
     payments |-> [i \in 1..Len(s.payments) |->
                      << s.payments[i].id, s.payments[i].customerId,
                         s.payments[i].allocatedInvoices >>],
     quotes |-> [i \in 1..Len(s.quotes.recs) |->
                    << s.quotes.recs[i].id, s.quotes.recs[i].customerId >>],
     parents |-> [c \in 1..Len(s.customers) |->
                     << s.customers[c].id, s.customers[c].parentCompanyId >>]]

\* the fields of a store that hold a product, pricing or price identifier
ProductScopedFields(s) ==
    [pricing |-> [c \in 1..Len(s.customers) |-> s.customers[c].customProductPricing],
     lineItems |-> [i \in 1..Len(s.invoices) |-> s.invoices[i].lineItems],
     quoteItems |-> [i \in 1..Len(s.quotes.recs) |-> s.quotes.recs[i].lineItems],
     products |-> s.products]

\* the data a mapping was applied to: run_complete_fix applies its mapping to
\* the collections as load_all_data keyed them, the other fixers to the files
DataBeforeMapping ==
    IF lastOp = "run_complete_fix" /\ OpsAt("write") # {}
    THEN load_all_data(prev)
    ELSE prev

\* C19: a run that applies a product mapping leaves every customerId,
\* parentCompanyId and invoice id as it was, and a run that applies a customer
\* mapping leaves every productId, pricing id and price id as it was.
C19_MappingsAreScopedToOneEntityType ==
    /\ lastOp \in ProductFixers =>
            CustomerScopedFields(files) = CustomerScopedFields(DataBeforeMapping)
    /\ lastOp \in CustomerFixers => ProductScopedFields(files) = ProductScopedFields(prev)

\* run_complete_fix rewrote a product reference whose identifier is also held
\* by a customer reference and is a key of the customer mapping as well
C19_Witness ==
    /\ lastOp = "run_complete_fix"
    /\ ret.b
    /\ \E old \in MappedSources :
          /\ old \in ProductReferenceFields(prev)
          /\ old \notin ProductReferenceFields(files)
          /\ old \in CustomerReferenceFields(prev)
          /\ \E order \in Orders(IdSet(prev.customers)) :
                old \in DOMAIN create_comprehensive_customer_mapping(prev, order)

\* the files are readable, have the documented shapes and no invoice lacks
\* its customerId
WellFormed(s) ==
    /\ s.status = AllOk
    /\ s.shape = DefaultShape
    /\ \A i \in 1..Len(s.invoices) : s.invoices[i].customerId # None

\* recs after a fixer, given recs before: a record whose customerId has a
\* non-null target holds the target, every other record is as it was
MappedRewrittenOthersKept(before, after) ==
    /\ Len(after) = Len(before)
    /\ \A i \in 1..Len(before) :
          IF before[i].customerId \in MappedSources
          THEN after[i] = [before[i] EXCEPT !.customerId = lastMapping[before[i].customerId]]
          ELSE after[i] = before[i]

\* C20: references without a mapping, or with a None target, do not stop a
\* customer fixer: it returns, every invoice and payment whose customerId has
\* a non-null target is rewritten and its file saved, and every other record
\* is left as it was; the same for fix_customer_references (the method) on
\* the loaded invoices, quotes and payments.
C20_UnmappableReferenceDoesNotAbort ==
    /\ (lastOp \in CustomerFixers \cup { "create_customer_id_mapping" } /\ WellFormed(prev))
            => Returned
    /\ (lastOp \in CustomerFixers /\ Returned) =>
            \A f \in { "invoices", "payments" } :
                prev.status[f] = "ok" =>
                    /\ MappedRewrittenOthersKept(prev[f], files[f])
                    /\ files[f] # prev[f] => Write(f) \in Range(io)
    /\ (lastOp = "create_customer_id_mapping" /\ Returned) =>
            LET d == load_all_data(prev)
            IN  /\ MappedRewrittenOthersKept(d.invoices, FixCustomerIdRefs(d.invoices, lastMapping))
                /\ MappedRewrittenOthersKept(d.payments, FixCustomerIdRefs(d.payments, lastMapping))
                /\ MappedRewrittenOthersKept(d.quotes.recs,
                                             FixCustomerIdRefs(d.quotes.recs, lastMapping))

\* apply_customer_fixes rewrote a record and left another, whose invalid
\* reference it could not map, as it was
C20_Witness ==
    /\ lastOp = "apply_customer_fixes"
    /\ Returned
    /\ \E i \in 1..Len(prev.invoices) :
          /\ prev.invoices[i].customerId \in MappedSources
          /\ files.invoices[i].customerId # prev.invoices[i].customerId
    /\ \E p \in DanglingCustomerRefs(prev.payments, prev) :
          /\ prev.payments[p].customerId \notin DOMAIN lastMapping
          /\ files.payments[p] = prev.payments[p]

(***************************************************************************)
(* Suggestions and automatic fixes                                         *)
(***************************************************************************)

\* the targets an exact strategy of a customer mapping builder can give ref:
\* the reference without its prefix, a segment of it, or a variation
ExactCandidates(ref) ==
    LET clean_ref == AfterPrefix(ref)
    IN  ComprehensiveVariations(ref)
        \cup (IF StartsWith(ref, "cust_")
              THEN { clean_ref, Last(Split(clean_ref, "__")), Split(clean_ref, "__")[1],
                     Replace(clean_ref, "__", "_"), Replace(clean_ref, "_", ""),
                     Replace(clean_ref, " ", "_") }
              ELSE {})

\* the pairs <<old, new>> of customerId values a run rewrote
RewrittenCustomerIds ==
    { << prev.invoices[i].customerId, files.invoices[i].customerId >> :
        i \in { i \in 1..Len(prev.invoices) :
                  files.invoices[i].customerId # prev.invoices[i].customerId } }
    \cup { << prev.payments[i].customerId, files.payments[i].customerId >> :
             i \in { i \in 1..Len(prev.payments) :
                       files.payments[i].customerId # prev.payments[i].customerId } }

\* C21: analyze_unmapped_customers writes no file, and a customer fixer
\* replaces a reference only by a target that an exact strategy supports,
\* that is similar to the reference above the threshold, or that the manual
\* tables name for it.
C21_BelowThresholdNeverApplied ==
    /\ lastOp = "analyze_unmapped_customers" => (files = prev /\ OpsAt("write") = {})
    /\ (lastOp \in CustomerFixers /\ Len(files.invoices) = Len(prev.invoices)
            /\ Len(files.payments) = Len(prev.payments)) =>
            \A rw \in RewrittenCustomerIds :
                \/ rw[2] \in ExactCandidates(rw[1])
                \/ AboveThreshold(similarity(Replace(rw[1], "cust_", ""), rw[2]))
                \/ rw[1] \in DOMAIN all_mappings

(***************************************************************************)
(* The repair workflow                                                     *)
(***************************************************************************)

\* the invalid references the mapping step of the last run found and gave
\* no target
UnmappedInvalidRefs ==
    CASE lastOp = "apply_customer_fixes" ->
            ComprehensiveInvalidRefs(prev) \ MappedSources
      [] lastOp = "run_complete_fix" ->
            { r \in ProductReferenceFields(prev) :
                Truthy(r) /\ r \notin KeySet(prev.products) } \ MappedSources
      [] OTHER -> {}

\* C22: a run reaches its fix-and-save step only when every invalid
\* reference its mapping step found has a target.
C22_NoSaveWhileUnmapped ==
    (lastOp \in { "apply_customer_fixes", "run_complete_fix" } /\ OpsAt("write") # {})
        => UnmappedInvalidRefs = {}

\* C23: the verifiers are read-only: after verify_integrity or
\* verify_data_integrity the four collection files and every record in them
\* are as they were, no file was written or backed up, whatever the number
\* of violations found
C23_VerifierIsReadOnly ==
    lastOp \in { "verify_integrity", "verify_data_integrity" } =>
        /\ files = prev
        /\ OpsAt("write") = {}
        /\ OpsAt("backup") = {}

\* a verifier returned with violations found
C23_Witness ==
    /\ lastOp = "verify_integrity"
    /\ ret.kind = "bool"
    /\ ret.n > 1
    /\ files = prev

\* C24: the comprehensive mapping does not depend on the iteration order of
\* the set of valid customer ids: every order gives the mapping the run built
C24_MappingIndependentOfSetOrder ==
    (lastOp = "apply_customer_fixes" /\ Returned) =>
        \A order \in Orders(IdSet(prev.customers)) :
            create_comprehensive_customer_mapping(prev, order) = lastMapping

\* C25: a customer fixer leaves every already-valid customer reference as it
\* was: after fix_customer_references or apply_customer_fixes, an invoice or
\* payment whose customerId was a customer id holds the same customerId
C25_ValidReferenceKept ==
    (/\ lastOp \in { "fix_customer_references", "apply_customer_fixes" }
     /\ Len(files.invoices) = Len(prev.invoices)
     /\ Len(files.payments) = Len(prev.payments)) =>
        \A rw \in RewrittenCustomerIds : rw[1] \notin IdSet(prev.customers)

\* the customers holding a pricing record that analyze_product_integrity and
\* fix_product_references treat as invalid: its productId is no product key
CustomersWithInvalidPricing(s) ==
    { c \in 1..Len(s.customers) :
        \E k \in 1..Len(s.customers[c].customProductPricing.items) :
            s.customers[c].customProductPricing.items[k].productId \notin KeySet(s.products) }

\* C26: the verifier agrees with the product fixer on dangling
\* customer -> product references: when verify_integrity returns, it has
\* reported a customer -> product violation for every customer holding a
\* pricing record whose productId is not a product id
C26_VerifierSeesInvalidPricing ==
    (lastOp = "verify_integrity" /\ Returned) =>
        \A c \in CustomersWithInvalidPricing(prev) :
            /\ ret.counts.customer_product > 0
            /\ \E e \in CustomerProductErrors(prev) : e[1] = c

\* C27: the two verifier scripts are equivalent: on every store,
\* verify_data_integrity and verify_integrity end the same way (both return
\* or both raise), with the same success flag and the same total
C27_VerifiersEquivalent ==
    /\ lastOp = "verify_data_integrity" => ret = VerifyOutcome(prev).ret
    /\ lastOp = "verify_integrity" => ret = verify_data_integrity(prev).ret

\* the ids of the records of a collection, in file order
IdsInOrder(recs) == [i \in 1..Len(recs) |-> recs[i].id]

\* C28: the load-fix-save round trip of DataIntegrityFixer loses and reorders
\* no record: every collection run_complete_fix saved holds as many records
\* as before, with the same ids in the same order, also when two records
\* share an id
C28_RoundTripKeepsEveryRecord ==
    lastOp = "run_complete_fix" =>
        /\ Write("customers") \in Range(io) =>
                IdsInOrder(files.customers) = IdsInOrder(prev.customers)
        /\ Write("invoices") \in Range(io) =>
                IdsInOrder(files.invoices) = IdsInOrder(prev.invoices)
        /\ Write("payments") \in Range(io) =>
                IdsInOrder(files.payments) = IdsInOrder(prev.payments)
        /\ Write("quotes") \in Range(io) =>
                IdsInOrder(files.quotes.recs) = IdsInOrder(prev.quotes.recs)

\* C29: when apply_customer_fixes has nothing to apply (no invalid customer
\* reference, or none that can be mapped), finalCustomerFix.py run as a
\* script ends normally: no file written, no error
C29_NothingToFixEndsNormally ==
    (/\ lastOp = "finalCustomerFix"
     /\ \A order \in Orders(IdSet(prev.customers)) :
            apply_customer_fixes(prev, order).ret = RetNone) =>
        /\ files = prev
        /\ OpsAt("write") = {}
        /\ Returned

\* the file the last migration script was run on
MigratedFile == IF lastOp = "migrate_invoices_timestamps" THEN "invoices" ELSE "payments"

\* the positions in io of the writes of the migrated file
MigratedWrites == { i \in 1..Len(io) : io[i] = Write(MigratedFile \o "_migrated") }

\* C30: the timestamp migrations are all-or-nothing and never touch the
\* original: a run writes no file but the migrated one, leaves invoices.json
\* and payments.json as they were, and writes the migrated file only after
\* the backup, with one record per input record, every issue date a
\* timestamp, and the validation passed in the time zone and with the Python
\* of the machine; a run that does not write it exits with status 1 and
\* leaves the migrated files as they were
C30_MigrationAllOrNothing ==
    lastOp \in { "migrate_invoices_timestamps", "migrate_payments_timestamps" } =>
        /\ files.invoices = prev.invoices /\ files.payments = prev.payments
        /\ files.shape = prev.shape /\ files.status = prev.status
        /\ \A i \in OpsAt("write") : i \in MigratedWrites
        /\ MigratedWrites # {} =>
            /\ \A i \in MigratedWrites : \E j \in 1..(i - 1) : io[j] = Backup(MigratedFile)
            /\ MigratedFile \in files.backups
            /\ ret = RetNone
            /\ files.migrated[MigratedFile].written
            /\ Len(files.migrated[MigratedFile].recs) = Len(prev[MigratedFile])
            /\ \A i \in 1..Len(prev[MigratedFile]) :
                  /\ files.migrated[MigratedFile].recs[i].id = prev[MigratedFile][i].id
                  /\ prev[MigratedFile][i].issueDate # StringValue(Absent) =>
                        files.migrated[MigratedFile].recs[i].date.type = "timestamp"
            /\ validate_migration(prev[MigratedFile], files.migrated[MigratedFile].recs,
                                  machine.zone, machine.py311) = "passed"
        /\ MigratedWrites = {} =>
            /\ ret = RetExit(1)
            /\ files.migrated = prev.migrated

\* a migration of ten invoices was written, every one of them converted
C30_Witness ==
    /\ lastOp = "migrate_invoices_timestamps"
    /\ Len(prev.invoices) = 10
    /\ MigratedWrites # {}
    /\ \A i \in 1..10 : files.migrated.invoices.recs[i].date.type = "timestamp"

====
